---- MODULE Spec2Model ----
(***************************************************************************)
(* A model of the orchestration core of StoryTeller (src/main.py):         *)
(*   - RateLimiter.wait_if_needed           (sliding window pacing)        *)
(*   - MiniMaxStoryTeller.make_api_call     (retry once, usage ledger)     *)
(*   - map_character_name_to_voice          (voice cache, round robin)     *)
(*   - parse_story_into_segments            (line parser)                  *)
(*   - generate_audio_for_segment / generate_full_story_audio              *)
(*   - generate_story                       (outcomes of a story call)     *)
(*   - create_character_from_template       (src/config.py)                *)
(*   - the streaming mode of the callers    (interactive_storyteller.py)   *)
(*   - fallback_name_analysis and the category mapping on every input      *)
(*   - get_usage_statistics                 (cost breakdown by model)      *)
(*                                                                         *)
(* Strings are sequences of one-character strings, so that lower(),        *)
(* strip() and split() are computed and not assumed.  Clock values are     *)
(* integers in ticks of 1/RPM second, which makes 60.0/requests_per_minute *)
(* an integer.  Money is counted in units of 1e-7 dollar, which makes      *)
(* every price of MODEL_COSTS an integer per token or character.           *)
(***************************************************************************)
EXTENDS Integers, Sequences, FiniteSets, TLC

VARIABLES
    \* ---- RateLimiter (one limiter instance) and the wall clock
    now,            \* time.time(), in ticks
    request_times,  \* RateLimiter.request_times
    rl_pc,          \* position inside wait_if_needed: idle | ceiling_sleep | interval_sleep
    current_time,   \* local variable current_time of wait_if_needed
    wait_time,      \* local variable wait_time of wait_if_needed (argument of the pending sleep)
    returned_at,    \* history: <<>>, or when the last call of wait_if_needed returned and whether that was min_interval after the call before it
    \* ---- usage ledger
    api_usage_stats, \* MiniMaxStoryTeller.api_usage_stats
    last_record,     \* history: the call recorded last (model, usage, cost added)
    \* ---- outbound calls: make_api_call, generate_audio_for_segment and the
    \* loop of generate_full_story_audio
    limiters,        \* request_times of self.chat_limiter and self.tts_limiter
    story_segments,  \* self.story_segments
    pc,              \* position: idle | acquire1 | post1 | retry_sleep | acquire2 | post2 | status | segment
    svc,             \* service of the call in progress: "chat" or "tts"
    call,            \* locals of the call in progress
    seg_i,           \* loop index of generate_full_story_audio (1-based)
    audio_files,     \* local list audio_files of generate_full_story_audio
    returned_files,  \* <<list>> once generate_full_story_audio has returned, else <<>>
    synth_log,       \* history: per generate_audio_for_segment call of this run, its segment and last response
    last_call,       \* history: the outbound call that finished last
    ops,             \* number of outbound calls started or committed to
    \* ---- voice resolver
    characters,            \* self.characters
    name_voice_cache,      \* self.name_voice_cache
    name_analysis_cache,   \* self.name_analysis_cache (empty until first used)
    voice_selection_index, \* self.voice_selection_index (empty until first used)
    history,               \* history: the calls of map_character_name_to_voice and what they returned
    \* ---- parse_story_into_segments
    parse_pc,        \* position: idle | line
    story,           \* argument story
    lines,           \* local list lines
    line_i,          \* loop index over lines (1-based)
    segments,        \* local list segments
    origin,          \* history: for each segment, the index of the line it was made from
    parses,          \* number of calls of parse_story_into_segments
    \* ---- generate_story
    current_story,   \* self.current_story
    story_log,       \* history: per call of generate_story, the response it looked at and what its caller got
    \* ---- create_character_from_template
    template_name,   \* argument template_name
    custom_name,     \* argument custom_name: <<>> for None, else <<name>>
    created,         \* <<>>, or <<what the call returned or raised>>
    \* ---- the streaming mode of the callers
    ws_opened,       \* number of channels opened to self.ws_url
    ws_frames,       \* the segments whose synthesis frames were sent, in the order sent
    ws_closed,       \* number of channels closed
    streaming_log,   \* history: per call of the streaming mode, the number of segments and the outcome
    \* ---- the classification steps of the voice resolver, on every input
    classify_pc,     \* position: input | heuristic | answered | done
    named,           \* argument char_name
    classified,      \* <<>>, or <<the analysis of the name>>
    category,        \* local variable voice_category, "" until it is set
    \* ---- get_usage_statistics
    usage_statistics \* <<>>, or <<what the last call of get_usage_statistics returned>>

rl_vars == <<now, request_times, rl_pc, current_time, wait_time, returned_at>>
ledger_vars == <<api_usage_stats, last_record>>

rl_locals == <<request_times, rl_pc, current_time, wait_time, returned_at>>
orch_vars == <<limiters, story_segments, pc, svc, call, seg_i, audio_files,
               returned_files, synth_log, last_call, ops>>

voice_vars == <<name_voice_cache, name_analysis_cache, voice_selection_index, history>>
parse_vars == <<parse_pc, story, lines, line_i, segments, origin, parses>>

story_vars == <<current_story, story_log>>
template_vars == <<template_name, custom_name, created>>
stream_vars == <<ws_opened, ws_frames, ws_closed, streaming_log>>
classify_vars == <<classify_pc, named, classified, category>>

vars == <<rl_vars, ledger_vars, orch_vars, characters, voice_vars, parse_vars, story_vars,
          template_vars, stream_vars, classify_vars, usage_statistics>>

\* what the actions of each part leave alone
rl_frame == <<ledger_vars, orch_vars, characters, voice_vars, parse_vars, story_vars,
              template_vars, stream_vars, classify_vars, usage_statistics>>
ledger_frame == <<rl_vars, orch_vars, characters, voice_vars, parse_vars, story_vars,
                  template_vars, stream_vars, classify_vars, usage_statistics>>
orch_frame == <<rl_locals, characters, voice_vars, parse_vars, story_vars, template_vars,
                stream_vars, classify_vars, usage_statistics>>
parse_frame == <<rl_locals, pc, svc, call, seg_i, audio_files, returned_files,
                 synth_log, last_call, ops, story_vars, template_vars, stream_vars,
                 classify_vars, usage_statistics>>
story_frame == <<rl_locals, story_segments, pc, svc, call, seg_i, audio_files,
                 returned_files, synth_log, last_call, ops, characters, voice_vars,
                 parse_vars, template_vars, stream_vars, classify_vars, usage_statistics>>
template_frame == <<rl_vars, ledger_vars, orch_vars, characters, voice_vars, parse_vars,
                    story_vars, stream_vars, classify_vars, usage_statistics>>
stream_frame == <<rl_vars, ledger_vars, orch_vars, characters, voice_vars, parse_vars,
                  story_vars, template_vars, classify_vars, usage_statistics>>
classify_frame == <<rl_vars, ledger_vars, orch_vars, characters, voice_vars, parse_vars,
                    story_vars, template_vars, stream_vars, usage_statistics>>
summary_frame == <<rl_vars, ledger_vars, orch_vars, characters, voice_vars, parse_vars,
                   story_vars, template_vars, stream_vars, classify_vars>>
voice_frame == <<parse_frame, story_segments>>

(***************************************************************************)
(* Generic helpers                                                         *)
(***************************************************************************)
RECURSIVE SeqMin(_)
SeqMin(s) ==
    IF Len(s) = 1 THEN s[1]
    ELSE LET m == SeqMin(Tail(s)) IN IF s[1] < m THEN s[1] ELSE m

(***************************************************************************)
(* Usage ledger: the "Track usage and costs" block of make_api_call        *)
(***************************************************************************)
\* Prices of MODEL_COSTS.  A price per 1M tokens is written in tenths of a
\* dollar, which is the price of one token in units of 1e-7 dollar; a price
\* per character is written in the same unit of 1e-7 dollar.
M1Input == 4
M1Output == 22
Text01Input == 2
Text01Output == 11
SpeechHdPerCharacter == 1000
SpeechTurboPerCharacter == 600
\* "Default $0.5 per 1M tokens"
FallbackPrice == 5

MODEL_COSTS ==
    [m \in {"MiniMax-M1", "MiniMax-Text-01", "speech-02-hd", "speech-02-turbo"} |->
        CASE m = "MiniMax-M1" -> [input |-> M1Input, output |-> M1Output]
          [] m = "MiniMax-Text-01" -> [input |-> Text01Input, output |-> Text01Output]
          [] m = "speech-02-hd" -> [per_character |-> SpeechHdPerCharacter]
          [] m = "speech-02-turbo" -> [per_character |-> SpeechTurboPerCharacter]]

MODELS ==
    [t \in {"story_generation", "name_analysis", "simple_tasks"} |->
        IF t = "story_generation" THEN "MiniMax-M1" ELSE "MiniMax-Text-01"]

\* self.MODELS.get(model_type, self.MODELS["simple_tasks"])
ModelFor(model_type) ==
    IF model_type \in DOMAIN MODELS THEN MODELS[model_type] ELSE MODELS["simple_tasks"]

\* dict.get(key, default) on a dict modelled as a function
Get(d, k, default) == IF k \in DOMAIN d THEN d[k] ELSE default

\* d[k] = v on a dict modelled as a function
Put(d, k, v) == [x \in DOMAIN d \cup {k} |-> IF x = k THEN v ELSE d[x]]

\* the empty dict
EmptyDict == [x \in {} |-> 0]

\* input_cost = (prompt_tokens / 1_000_000) * model_costs["input"]
InputCostMutant(model_costs, prompt_tokens) == prompt_tokens * model_costs.output
InputCost(model_costs, prompt_tokens) == prompt_tokens * model_costs.input

\* output_cost = (completion_tokens / 1_000_000) * model_costs["output"]
OutputCost(model_costs, completion_tokens) == completion_tokens * model_costs.output

\* "Calculate estimated cost based on new pricing structure"
EstimatedCostMutant(model, usage) ==
    LET total_tokens == Get(usage, "total_tokens", 0)
    IN  IF model \in DOMAIN MODEL_COSTS
        THEN LET model_costs == MODEL_COSTS[model]
             IN  IF "input" \in DOMAIN model_costs /\ "output" \in DOMAIN model_costs
                 THEN InputCost(model_costs, total_tokens)
                 ELSE IF "per_character" \in DOMAIN model_costs
                      THEN total_tokens * model_costs.per_character
                      ELSE 0
        ELSE total_tokens * FallbackPrice
EstimatedCost(model, usage) ==
    LET prompt_tokens == Get(usage, "prompt_tokens", 0)
        completion_tokens == Get(usage, "completion_tokens", 0)
        total_tokens == Get(usage, "total_tokens", 0)
    IN  IF model \in DOMAIN MODEL_COSTS
        THEN LET model_costs == MODEL_COSTS[model]
             IN  IF "input" \in DOMAIN model_costs /\ "output" \in DOMAIN model_costs
                 THEN InputCost(model_costs, prompt_tokens)
                      + OutputCost(model_costs, completion_tokens)
                 ELSE IF "per_character" \in DOMAIN model_costs
                      THEN total_tokens * model_costs.per_character
                      ELSE 0
        ELSE total_tokens * FallbackPrice

\* make_api_call from "Track usage and costs" to its return: the ledger after
\* a call of `model` whose parsed response is `result`
RecordUsageMutant(stats, model, result) ==
    [stats EXCEPT
        !.total_calls = @ + 1,
        !.calls_by_model = Put(EmptyDict, model, 1)]
RecordUsage(stats, model, result) ==
    LET counted ==
            [stats EXCEPT
                !.total_calls = @ + 1,
                !.calls_by_model = Put(@, model, Get(@, model, 0) + 1)]
    IN  IF "usage" \in DOMAIN result
        THEN LET total_tokens == Get(result.usage, "total_tokens", 0)
             IN  [counted EXCEPT
                    !.total_tokens = @ + total_tokens,
                    !.tokens_by_model = Put(@, model, Get(@, model, 0) + total_tokens),
                    !.estimated_cost = @ + EstimatedCost(model, result.usage)]
        ELSE counted

\* the ledger as make_api_call creates it on first use; get_usage_statistics
\* reports the same zeros while the attribute does not exist
NewStats ==
    [total_calls |-> 0, total_tokens |-> 0, estimated_cost |-> 0,
     calls_by_model |-> EmptyDict, tokens_by_model |-> EmptyDict]

\* what the call recorded last added: its model, its parsed response, the cost
\* added to estimated_cost, and the locals input_cost and output_cost (0 when
\* the token-tiered branch was not taken)
RecordOf(stats, model, result) ==
    LET tiered == /\ "usage" \in DOMAIN result
                  /\ model \in DOMAIN MODEL_COSTS
                  /\ {"input", "output"} \subseteq DOMAIN MODEL_COSTS[model]
    IN  [model |-> model, result |-> result, recorded |-> TRUE,
         cost |-> RecordUsage(stats, model, result).estimated_cost - stats.estimated_cost,
         input_cost |->
            IF tiered
            THEN InputCost(MODEL_COSTS[model], Get(result.usage, "prompt_tokens", 0))
            ELSE 0,
         output_cost |->
            IF tiered
            THEN OutputCost(MODEL_COSTS[model], Get(result.usage, "completion_tokens", 0))
            ELSE 0]

NoRecord ==
    [model |-> "", result |-> EmptyDict, recorded |-> FALSE,
     cost |-> 0, input_cost |-> 0, output_cost |-> 0]

LedgerIdle ==
    /\ api_usage_stats = NewStats
    /\ last_record = NoRecord

\* number of calls recorded in one run of the ledger specification
MaxRecorded == 2

\* usage figures a response may carry; a field may be missing
PromptCounts == {0, 1000}
CompletionCounts == {0, 500}
Usages ==
    {[prompt_tokens |-> p, completion_tokens |-> c, total_tokens |-> p + c] :
        p \in PromptCounts, c \in CompletionCounts}
    \cup [{"prompt_tokens", "total_tokens"} -> {1000}]
    \cup {EmptyDict}
\* parsed responses: with and without a "usage" key
Results == {[usage |-> u] : u \in Usages} \cup {EmptyDict}
\* every model of the pricing table and one that has no pricing entry
LedgerModels == DOMAIN MODEL_COSTS \cup {"custom-model"}

\* one response recorded for a call of `model`
RecordCall ==
    /\ UNCHANGED ledger_frame
    /\ api_usage_stats.total_calls < MaxRecorded
    /\ \E model \in LedgerModels, result \in Results :
         /\ api_usage_stats' = RecordUsage(api_usage_stats, model, result)
         /\ last_record' = RecordOf(api_usage_stats, model, result)

\* int(tokens * 0.7): the product is a double, which for some token counts
\* lies just below the exact value and is then cut to one less; of the
\* multiples of 500 up to 12000 these are the ones
CutShort == {5500, 10500, 11000, 11500}
InputTokens(tokens) ==
    IF tokens \in CutShort THEN ((tokens * 7) \div 10) - 1 ELSE (tokens * 7) \div 10

\* the entry of cost_breakdown for a model with `tokens` in tokens_by_model
Breakdown(model, tokens) ==
    IF model \in DOMAIN MODEL_COSTS
    THEN LET model_costs == MODEL_COSTS[model]
         IN  IF "input" \in DOMAIN model_costs /\ "output" \in DOMAIN model_costs
             THEN [tokens |-> tokens,
                   input_tokens |-> InputTokens(tokens),
                   output_tokens |-> tokens - InputTokens(tokens),
                   cost |-> InputCost(model_costs, InputTokens(tokens))
                            + OutputCost(model_costs, tokens - InputTokens(tokens))]
             ELSE [characters |-> tokens, cost |-> tokens * model_costs.per_character]
    ELSE [tokens |-> tokens, cost |-> tokens * FallbackPrice]

\* get_usage_statistics: a copy of the ledger with the cost breakdown by model
get_usage_statistics(stats) ==
    [total_calls |-> stats.total_calls,
     total_tokens |-> stats.total_tokens,
     estimated_cost |-> stats.estimated_cost,
     calls_by_model |-> stats.calls_by_model,
     tokens_by_model |-> stats.tokens_by_model,
     cost_breakdown |->
        [model \in DOMAIN stats.tokens_by_model |->
            Breakdown(model, stats.tokens_by_model[model])]]

\* a caller asks for the summary
GetUsageStatistics ==
    /\ UNCHANGED summary_frame
    /\ usage_statistics' = <<get_usage_statistics(api_usage_stats)>>

\* no summary has been asked for
SummaryIdle == usage_statistics = <<>>

(***************************************************************************)
(* RateLimiter                                                             *)
(***************************************************************************)
\* requests_per_minute of the modelled limiter (100 and 50 in config.py; a
\* small value here so that the ceiling is reached)
RPM == 3
\* clock ticks per second
TicksPerSecond == RPM
\* the literal 60.0 of wait_if_needed and of min_interval, in seconds
SixtySeconds == 60
\* the literal 1.0 ("Add 1 second buffer"), in seconds
BufferSeconds == 1
Window == SixtySeconds * TicksPerSecond
Buffer == BufferSeconds * TicksPerSecond
\* self.min_interval = 60.0 / requests_per_minute
min_interval == (SixtySeconds * TicksPerSecond) \div RPM

\* number of minimum intervals of clock time during which calls are started
MaxIntervals == 6
MaxTime == MaxIntervals * min_interval
\* time.sleep never returns early; it returns on time or one second late
Oversleeps == {0, Buffer}

\* [t for t in self.request_times if current_time - t < 60.0]
Prune(times, t) ==
    LET Recent(x) == t - x < Window IN SelectSeq(times, Recent)

\* 60.0 - (current_time - oldest_request) + 1.0
CeilingWaitMutant(times, t) == Buffer
CeilingWait(times, t) == Window - (t - SeqMin(times)) + Buffer

\* the part of wait_if_needed from "Add current request" on: append, then
\* decide whether the minimum-interval sleep is needed
AppendAndSpaceMutant(times, t) ==
    [times |-> Append(times, t), pc |-> "blocked", wait |-> 0]
AppendAndSpace(times, t) ==
    LET appended == Append(times, t)
        time_since_last == t - appended[Len(appended) - 1]
    IN  IF Len(appended) > 1 /\ time_since_last < min_interval
        THEN [times |-> appended, pc |-> "interval_sleep",
              wait |-> min_interval - time_since_last]
        ELSE [times |-> appended, pc |-> "idle", wait |-> 0]

\* the record of the last return, once a call has returned at t
ReturnedAt(log, t) ==
    <<[at |-> t, spaced |-> log = <<>> \/ t - log[1].at >= min_interval]>>

\* wait_if_needed, up to its first sleep (or to its return when it does not sleep)
WaitBegin ==
    /\ UNCHANGED rl_frame
    /\ rl_pc = "idle"
    /\ now <= MaxTime
    /\ LET pruned == Prune(request_times, now)
       IN  IF Len(pruned) >= RPM /\ CeilingWait(pruned, now) > 0
           THEN /\ request_times' = pruned
                /\ current_time' = now
                /\ wait_time' = CeilingWait(pruned, now)
                /\ rl_pc' = "ceiling_sleep"
                /\ UNCHANGED <<now, returned_at>>
           ELSE LET r == AppendAndSpace(pruned, now)
                IN  /\ request_times' = r.times
                    /\ current_time' = now
                    /\ wait_time' = r.wait
                    /\ rl_pc' = r.pc
                    /\ returned_at' = IF r.pc = "idle" THEN ReturnedAt(returned_at, now)
                                      ELSE returned_at
                    /\ UNCHANGED now

\* time.sleep(wait_time); current_time = time.time(); then the rest of the call
CeilingSleep ==
    /\ UNCHANGED rl_frame
    /\ rl_pc = "ceiling_sleep"
    /\ \E over \in Oversleeps :
         LET woke == now + wait_time + over
             r == AppendAndSpace(request_times, woke)
         IN  /\ now' = woke
             /\ current_time' = woke
             /\ request_times' = r.times
             /\ wait_time' = r.wait
             /\ rl_pc' = r.pc
             /\ returned_at' = IF r.pc = "idle" THEN ReturnedAt(returned_at, woke)
                               ELSE returned_at

\* the final time.sleep(wait_time) of wait_if_needed, then return
IntervalSleep ==
    /\ UNCHANGED rl_frame
    /\ rl_pc = "interval_sleep"
    /\ \E over \in Oversleeps :
         /\ now' = now + wait_time + over
         /\ rl_pc' = "idle"
         /\ wait_time' = 0
         /\ returned_at' = ReturnedAt(returned_at, now + wait_time + over)
         /\ UNCHANGED <<request_times, current_time>>

\* the caller lets time pass between two calls
AdvanceSteps == {min_interval \div 2, Window - Buffer}
Advance ==
    /\ UNCHANGED rl_frame
    /\ rl_pc = "idle"
    /\ \E d \in AdvanceSteps :
         /\ now + d <= MaxTime
         /\ now' = now + d
    /\ UNCHANGED <<request_times, rl_pc, current_time, wait_time, returned_at>>

RLInit ==
    /\ now = 0
    /\ request_times = <<>>
    /\ rl_pc = "idle"
    /\ current_time = 0
    /\ wait_time = 0
    /\ returned_at = <<>>

(***************************************************************************)
(* Characters and segments                                                 *)
(***************************************************************************)
Str_Narrator == <<"N", "a", "r", "r", "a", "t", "o", "r">>
Str_Kael == <<"K", "a", "e", "l">>

\* dataclass Character; speed, volume and pitch in hundredths
Character(name, description, voice_id, speed, volume, pitch, emotion) ==
    [name |-> name, description |-> description, voice_id |-> voice_id,
     speed |-> speed, volume |-> volume, pitch |-> pitch, emotion |-> emotion]

\* self.characters["narrator"]
NarratorCharacter ==
    Character(Str_Narrator,
              <<"A wise storyteller with a warm, engaging voice who brings the world to life with vivid descriptions">>,
              "English_expressive_narrator", 100, 100, 0, "calm")

\* dataclass StorySegment; audio_file is <<>> for None and <<filename>> once set
StorySegment(character, text) ==
    [character |-> character, text |-> text, audio_file |-> <<>>]

(***************************************************************************)
(* Outbound calls: make_api_call, generate_audio_for_segment and           *)
(* generate_full_story_audio                                               *)
(***************************************************************************)
\* RATE_LIMITS["retry_delay"], in seconds
RetryDelaySeconds == 60
retry_delay == RetryDelaySeconds * TicksPerSecond

\* wait_if_needed from its last "if": the window and the clock after the
\* request recorded at time woke was spaced, r being what AppendAndSpace gives
AfterSpacing(woke, r) == [times |-> r.times, now |-> woke + r.wait]

\* wait_if_needed from "Add current request", reached at time woke
WaitFrom(pruned, woke) == AfterSpacing(woke, AppendAndSpace(pruned, woke))

\* the time at which wait_if_needed, called at t, leaves its first "if"
WokeAt(pruned, t) ==
    IF Len(pruned) >= RPM /\ CeilingWait(pruned, t) > 0
    THEN t + CeilingWait(pruned, t)
    ELSE t

\* wait_if_needed after "Remove requests older than 1 minute"
WaitPruned(pruned, t) == WaitFrom(pruned, WokeAt(pruned, t))

\* the whole of wait_if_needed on a limiter whose window is `times`, called
\* at time t with sleeps that end on time: the window and the clock afterwards
WaitIfNeeded(times, t) == WaitPruned(Prune(times, t), t)

\* what requests.post can bring: a transport error (it raises), or a response
\* with status 429, with another error status (raise_for_status raises; a 200
\* whose body is not JSON makes response.json() raise at the same place), or
\* with status 200 and a JSON body
FailureKinds == {"throttle", "http_error", "transport_error"}
ChatBodies == {EmptyDict, [usage |-> [prompt_tokens |-> 1000, completion_tokens |-> 500,
                                      total_tokens |-> 1500]]}
TtsBodies == {EmptyDict, [data |-> [audio |-> "not hex"]], [data |-> [audio |-> "hex"]]}
Responses(service) ==
    {[kind |-> k, body |-> EmptyDict] : k \in FailureKinds}
    \cup {[kind |-> "ok", body |-> b] :
            b \in IF service = "chat" THEN ChatBodies ELSE TtsBodies}
NoResponse == [kind |-> "none", body |-> EmptyDict]

ModelTypes == {"story_generation", "other_task"}

\* f"{output_dir}/{char.name}_{timestamp}.mp3" with timestamp = int(time.time())
Filename(char, t) == [name |-> char.name, timestamp |-> t \div TicksPerSecond]

NoCall ==
    [model |-> "", attempts |-> 0, acquired |-> 0, responses |-> <<>>, filename |-> <<>>]
NoLastCall ==
    [finished |-> FALSE, service |-> "", attempts |-> 0, acquired |-> 0,
     responses |-> <<>>, outcome |-> ""]

LastResponse(c) == c.responses[Len(c.responses)]

\* "if response.status_code == 429" after the first post
AfterFirstPostMutant(kind) ==
    IF kind \in {"throttle", "http_error"} THEN "retry_sleep" ELSE "status"
AfterFirstPost(kind) == IF kind = "throttle" THEN "retry_sleep" ELSE "status"

\* after the post of the retry nothing is checked but raise_for_status
AfterRetryPostMutant(kind) == IF kind = "throttle" THEN "retry_sleep" ELSE "status"
AfterRetryPost(kind) == "status"

\* make_api_call: raise_for_status() and response.json() pass
ChatReturnsMutant(c) == TRUE
ChatReturns(c) == LastResponse(c).kind = "ok"

\* generate_audio_for_segment from raise_for_status() to bytes.fromhex(): the
\* response carries audio that decodes
AudioDecodes(resp) ==
    /\ resp.kind = "ok"
    /\ "data" \in DOMAIN resp.body
    /\ "audio" \in DOMAIN resp.body.data
    /\ resp.body.data.audio = "hex"

\* generate_audio_for_segment: the value returned, <<filename>> or <<>> for
\* None; `written` says whether open() and f.write() succeed
SynthResult(c, written) ==
    IF AudioDecodes(LastResponse(c)) /\ written THEN c.filename ELSE <<>>

\* the for loop of generate_full_story_audio: the index after segment i,
\* whose call returned audio_file
NextSegmentMutant(i, audio_file) ==
    IF audio_file = <<>> THEN Len(story_segments) + 1 ELSE i + 1
NextSegment(i, audio_file) == i + 1

\* "if audio_file: audio_files.append(audio_file)"
Collect(files, audio_file) ==
    IF audio_file # <<>> THEN Append(files, audio_file[1]) ELSE files

\* the call in progress ends: make_api_call returns or raises, or
\* generate_audio_for_segment returns and the loop goes on
Finish(c, written) ==
    IF svc = "chat"
    THEN /\ api_usage_stats' =
              IF ChatReturns(c)
              THEN RecordUsage(api_usage_stats, c.model, LastResponse(c).body)
              ELSE api_usage_stats
         /\ last_record' =
              IF ChatReturns(c)
              THEN RecordOf(api_usage_stats, c.model, LastResponse(c).body)
              ELSE last_record
         /\ last_call' =
              [finished |-> TRUE, service |-> "chat", attempts |-> c.attempts,
               acquired |-> c.acquired, responses |-> c.responses,
               outcome |-> IF ChatReturns(c) THEN "returned" ELSE "raised"]
         /\ pc' = "idle"
         /\ call' = NoCall
         /\ UNCHANGED <<story_segments, seg_i, audio_files, returned_files, synth_log>>
    ELSE LET audio_file == SynthResult(c, written)
             files == Collect(audio_files, audio_file)
             next == NextSegment(seg_i, audio_file)
         IN  /\ story_segments' =
                  IF audio_file # <<>>
                  THEN [story_segments EXCEPT ![seg_i].audio_file = audio_file]
                  ELSE story_segments
             /\ audio_files' = files
             /\ seg_i' = next
             /\ synth_log' =
                  [synth_log EXCEPT ![Len(synth_log)] =
                      [@ EXCEPT !.response = LastResponse(c),
                                !.written = AudioDecodes(LastResponse(c)) /\ written]]
             /\ last_call' =
                  [finished |-> TRUE, service |-> "tts", attempts |-> c.attempts,
                   acquired |-> c.acquired, responses |-> c.responses,
                   outcome |-> IF audio_file # <<>> THEN "file" ELSE "none"]
             /\ IF next > Len(story_segments)
                THEN pc' = "idle" /\ returned_files' = <<files>>
                ELSE pc' = "segment" /\ UNCHANGED returned_files
             /\ call' = NoCall
             /\ UNCHANGED <<api_usage_stats, last_record>>

\* number of outbound calls (make_api_call, generate_audio_for_segment) started
MaxCalls == 3

\* make_api_call up to "Apply rate limiting for chat completion"
StartApiCall ==
    /\ UNCHANGED orch_frame
    /\ pc = "idle"
    /\ ops < MaxCalls
    /\ \E model_type \in ModelTypes :
         call' = [NoCall EXCEPT !.model = ModelFor(model_type)]
    /\ svc' = "chat"
    /\ pc' = "acquire1"
    /\ ops' = ops + 1
    /\ UNCHANGED <<now, limiters, story_segments, seg_i, audio_files, returned_files,
                   synth_log, last_call, api_usage_stats, last_record>>

\* generate_full_story_audio up to its loop
StartAudio ==
    /\ UNCHANGED orch_frame
    /\ pc = "idle"
    /\ ops + Len(story_segments) <= MaxCalls
    /\ ops' = ops + Len(story_segments)
    /\ audio_files' = <<>>
    /\ seg_i' = 1
    /\ synth_log' = <<>>
    /\ IF Len(story_segments) = 0
       THEN pc' = "idle" /\ returned_files' = <<(<<>>)>>
       ELSE pc' = "segment" /\ returned_files' = <<>>
    /\ UNCHANGED <<now, limiters, story_segments, svc, call, last_call,
                   api_usage_stats, last_record>>

\* generate_audio_for_segment up to "Apply rate limiting for TTS"
SegmentBegin ==
    /\ UNCHANGED orch_frame
    /\ pc = "segment"
    /\ svc' = "tts"
    /\ call' = [NoCall EXCEPT
                  !.model = "speech-02-hd",
                  !.filename = <<Filename(story_segments[seg_i].character, now)>>]
    /\ synth_log' = Append(synth_log,
                           [segment |-> seg_i, response |-> NoResponse, written |-> FALSE])
    /\ pc' = "acquire1"
    /\ UNCHANGED <<now, limiters, story_segments, seg_i, audio_files, returned_files,
                   last_call, ops, api_usage_stats, last_record>>

\* self.chat_limiter.wait_if_needed() or self.tts_limiter.wait_if_needed()
AcquireMutant(at, next) ==
    /\ UNCHANGED orch_frame
    /\ pc = at
    /\ LET w == WaitIfNeeded(limiters.chat, now)
       IN  /\ limiters' = [limiters EXCEPT !.chat = w.times]
           /\ now' = w.now
    /\ call' = [call EXCEPT !.acquired = @ + 1]
    /\ pc' = next
    /\ UNCHANGED <<story_segments, svc, seg_i, audio_files, returned_files, synth_log,
                   last_call, ops, api_usage_stats, last_record>>
Acquire(at, next) ==
    /\ UNCHANGED orch_frame
    /\ pc = at
    /\ LET w == WaitIfNeeded(limiters[svc], now)
       IN  /\ limiters' = [limiters EXCEPT ![svc] = w.times]
           /\ now' = w.now
    /\ call' = [call EXCEPT !.acquired = @ + 1]
    /\ pc' = next
    /\ UNCHANGED <<story_segments, svc, seg_i, audio_files, returned_files, synth_log,
                   last_call, ops, api_usage_stats, last_record>>

Acquire1 == Acquire("acquire1", "post1")
Acquire2 == Acquire("acquire2", "post2")

\* requests.post(...): it raises, or its response is looked at
Post(at, first) ==
    /\ UNCHANGED orch_frame
    /\ pc = at
    /\ \E resp \in Responses(svc) :
         LET c == [call EXCEPT !.attempts = @ + 1, !.responses = Append(@, resp)]
         IN  /\ UNCHANGED now
             /\ IF resp.kind = "transport_error"
                THEN Finish(c, FALSE) /\ UNCHANGED <<limiters, svc, ops>>
                ELSE /\ call' = c
                     /\ pc' = IF first THEN AfterFirstPost(resp.kind)
                                 ELSE AfterRetryPost(resp.kind)
                     /\ UNCHANGED <<limiters, story_segments, svc, seg_i, audio_files,
                                    returned_files, synth_log, last_call, ops,
                                    api_usage_stats, last_record>>

Post1 == Post("post1", TRUE)
Post2 == Post("post2", FALSE)

\* time.sleep(self.retry_delay)
RetrySleep ==
    /\ UNCHANGED orch_frame
    /\ pc = "retry_sleep"
    /\ now' = now + retry_delay
    /\ pc' = "acquire2"
    /\ UNCHANGED <<limiters, story_segments, svc, call, seg_i, audio_files,
                   returned_files, synth_log, last_call, ops, api_usage_stats,
                   last_record>>

\* response.raise_for_status() and all that follows it
Status ==
    /\ UNCHANGED orch_frame
    /\ pc = "status"
    /\ \E written \in BOOLEAN : Finish(call, written)
    /\ UNCHANGED <<now, limiters, svc, ops>>

\* segments a parse can leave in self.story_segments: stories of up to
\* MaxSegments lines in which the narrator speaks twice, then Kael, in turn
KaelCharacter ==
    Character(Str_Kael,
              <<"AI-generated character with ", "unknown", " voice, ", "adult",
                " age group, ", "neutral", " personality">>,
              "English_magnetic_voiced_man", 100, 100, 0, "neutral")
SegmentAt(i) ==
    IF i % 3 = 0
    THEN StorySegment(KaelCharacter, <<"G", "o", "!">>)
    ELSE StorySegment(NarratorCharacter, <<"H", "i">>)
MaxSegments == 3
SegmentLists == {[i \in 1..n |-> SegmentAt(i)] : n \in 0..MaxSegments}

OrchIdle ==
    /\ limiters = [chat |-> <<>>, tts |-> <<>>]
    /\ story_segments = <<>>
    /\ pc = "idle"
    /\ svc = "chat"
    /\ call = NoCall
    /\ seg_i = 1
    /\ audio_files = <<>>
    /\ returned_files = <<>>
    /\ synth_log = <<>>
    /\ last_call = NoLastCall
    /\ ops = 0

OrchInit ==
    /\ limiters = [chat |-> <<>>, tts |-> <<>>]
    /\ story_segments \in SegmentLists
    /\ pc = "idle"
    /\ svc = "chat"
    /\ call = NoCall
    /\ seg_i = 1
    /\ audio_files = <<>>
    /\ returned_files = <<>>
    /\ synth_log = <<>>
    /\ last_call = NoLastCall
    /\ ops = 0

OrchNext ==
    \/ StartApiCall \/ StartAudio \/ SegmentBegin
    \/ Acquire1 \/ Post1 \/ RetrySleep \/ Acquire2 \/ Post2 \/ Status

(***************************************************************************)
(* Strings: str.lower, str.strip, str.split and the "in" of substrings     *)
(***************************************************************************)
LowerChar(c) ==
    CASE c = "A" -> "a"
      [] c = "B" -> "b"
      [] c = "C" -> "c"
      [] c = "D" -> "d"
      [] c = "E" -> "e"
      [] c = "F" -> "f"
      [] c = "G" -> "g"
      [] c = "H" -> "h"
      [] c = "I" -> "i"
      [] c = "J" -> "j"
      [] c = "K" -> "k"
      [] c = "L" -> "l"
      [] c = "M" -> "m"
      [] c = "N" -> "n"
      [] c = "O" -> "o"
      [] c = "P" -> "p"
      [] c = "Q" -> "q"
      [] c = "R" -> "r"
      [] c = "S" -> "s"
      [] c = "T" -> "t"
      [] c = "U" -> "u"
      [] c = "V" -> "v"
      [] c = "W" -> "w"
      [] c = "X" -> "x"
      [] c = "Y" -> "y"
      [] c = "Z" -> "z"
      [] OTHER -> c

\* str.lower()
Lower(s) == IF s = <<>> THEN <<>> ELSE [i \in 1..Len(s) |-> LowerChar(s[i])]

\* sub in s
Contains(s, sub) ==
    \E i \in 0..(Len(s) - Len(sub)) : SubSeq(s, i + 1, i + Len(sub)) = sub

\* s.endswith(tuple of one-character strings)
EndsWithAny(s, chars) == s # <<>> /\ s[Len(s)] \in chars

\* the characters str.strip() removes
Whitespace == {" ", "\t", "\n", "\r"}

\* str.strip(): what lies between the first and the last character that is
\* not whitespace
Strip(s) ==
    LET kept == {i \in 1..Len(s) : s[i] \notin Whitespace}
    IN  IF kept = {} THEN <<>>
        ELSE SubSeq(s, CHOOSE i \in kept : \A j \in kept : i <= j,
                       CHOOSE i \in kept : \A j \in kept : j <= i)

\* position of the first c in s, 0 when there is none
IndexOf(s, c) ==
    IF \E i \in 1..Len(s) : s[i] = c
    THEN CHOOSE i \in 1..Len(s) : s[i] = c /\ \A j \in 1..(i - 1) : s[j] # c
    ELSE 0

\* s.split(c): the pieces between the occurrences of c, of which the k-th is
\* at position Cut(s, c, k); Cut(s, c, 0) is before s and the last is after it
Cut(s, c, k) ==
    LET at == {i \in 1..Len(s) : s[i] = c}
    IN  IF k = 0 THEN 0
        ELSE IF k > Cardinality(at) THEN Len(s) + 1
        ELSE CHOOSE i \in at : Cardinality({j \in at : j <= i}) = k
Split(s, c) ==
    [k \in 1..(Cardinality({i \in 1..Len(s) : s[i] = c}) + 1) |->
        SubSeq(s, Cut(s, c, k - 1) + 1, Cut(s, c, k) - 1)]

\* s.split(c, 1)
SplitOnce(s, c) ==
    LET i == IndexOf(s, c)
    IN  IF i = 0 THEN <<s>> ELSE <<SubSeq(s, 1, i - 1), SubSeq(s, i + 1, Len(s))>>

(***************************************************************************)
(* Voice resolver: analyze_character_name_with_ai, fallback_name_analysis  *)
(* and map_character_name_to_voice                                         *)
(***************************************************************************)
\* make_api_call from raise_for_status(): `last` is the response it looks at
\* and w the chat limiter and the clock after the last wait_if_needed
ApiReturn(lims, stats, model, last, w) ==
    [limiters |-> [lims EXCEPT !.chat = w.times],
     now |-> w.now,
     stats |-> IF last.kind = "ok" THEN RecordUsage(stats, model, last.body) ELSE stats,
     record |-> IF last.kind = "ok" THEN <<RecordOf(stats, model, last.body)>> ELSE <<>>,
     returned |-> last.kind = "ok",
     result |-> last.body]

\* make_api_call from "Check for rate limit errors", w1 being the chat limiter
\* and the clock after the first wait_if_needed
ApiAfterFirstPost(lims, stats, model, reply, w1) ==
    IF AfterFirstPost(reply[1].kind) = "retry_sleep"
    THEN ApiReturn(lims, stats, model, reply[2],
                   WaitIfNeeded(w1.times, w1.now + retry_delay))
    ELSE ApiReturn(lims, stats, model, reply[1], w1)

\* make_api_call as one step, with sleeps that end on time: reply[1] answers
\* the first post and reply[2] the post of the retry, if there is one
MakeApiCall(lims, t, stats, model_type, reply) ==
    ApiAfterFirstPost(lims, stats, ModelFor(model_type), reply,
                      WaitIfNeeded(lims.chat, t))

\* the confidence values, in hundredths
FallbackConfidence == 30
DefaultConfidence == 50

RequiredFields == {"gender", "age_group", "personality_trait", "voice_type", "confidence"}

\* "Validate required fields": a missing field becomes "unknown", or 0.5 for
\* the confidence
FillRequired(analysis) ==
    [f \in DOMAIN analysis \cup RequiredFields |->
        IF f \in DOMAIN analysis THEN analysis[f]
        ELSE IF f # "confidence" THEN "unknown" ELSE DefaultConfidence]

Vowels == {"a", "e", "i", "o", "u"}
VillainPatterns == {<<"s", "h", "a", "d", "o", "w">>,
    <<"d", "a", "r", "k">>,
    <<"g", "r", "i", "m">>,
    <<"v", "e", "x">>,
    <<"m", "a", "l">>}
HeroicPatterns == {<<"l", "i", "g", "h", "t">>,
    <<"b", "r", "i", "g", "h", "t">>,
    <<"s", "u", "n">>,
    <<"s", "t", "a", "r">>}
WisePatterns == {<<"w", "i", "s", "e">>,
    <<"s", "a", "g", "e">>,
    <<"e", "l", "d", "e", "r">>,
    <<"m", "e", "r", "l", "i", "n">>}

fallback_name_analysisMutant(char_name) ==
    LET char_name_lower == Lower(char_name)
        analysis == [gender |-> "unknown", age_group |-> "adult",
                     personality_trait |-> "neutral", voice_type |-> "neutral",
                     confidence |-> FallbackConfidence]
        gendered ==
            IF \E v \in Vowels : Contains(char_name_lower, <<v>>)
            THEN IF EndsWithAny(char_name_lower, {"a", "e", "i"})
                 THEN [analysis EXCEPT !.gender = "female", !.voice_type = "feminine"]
                 ELSE IF EndsWithAny(char_name_lower, {"o", "u", "n", "r"})
                      THEN [analysis EXCEPT !.gender = "male", !.voice_type = "masculine"]
                      ELSE analysis
            ELSE analysis
    IN  IF \E p \in VillainPatterns : Contains(char_name_lower, p)
        THEN [gendered EXCEPT !.personality_trait = "villainous"]
        ELSE IF \E p \in HeroicPatterns : Contains(char_name_lower, p)
             THEN [gendered EXCEPT !.personality_trait = "heroic"]
             ELSE IF \E p \in WisePatterns : Contains(char_name_lower, p)
                  THEN [gendered EXCEPT !.personality_trait = "wise"]
                  ELSE gendered
fallback_name_analysis(char_name) ==
    LET char_name_lower == Lower(char_name)
        analysis == [gender |-> "unknown", age_group |-> "adult",
                     personality_trait |-> "neutral", voice_type |-> "neutral",
                     confidence |-> FallbackConfidence]
        gendered ==
            IF \E v \in Vowels : Contains(char_name_lower, <<v>>)
            THEN IF EndsWithAny(char_name_lower, {"a", "e", "i"})
                 THEN [analysis EXCEPT !.gender = "female", !.voice_type = "feminine"]
                 ELSE IF EndsWithAny(char_name_lower, {"o", "u", "n", "r"})
                      THEN [analysis EXCEPT !.gender = "male", !.voice_type = "masculine"]
                      ELSE analysis
            ELSE analysis
    IN  IF \E p \in VillainPatterns : Contains(char_name_lower, p)
        THEN [gendered EXCEPT !.personality_trait = "villainous"]
        ELSE IF \E p \in HeroicPatterns : Contains(char_name_lower, p)
             THEN [gendered EXCEPT !.personality_trait = "heroic"]
             ELSE IF \E p \in WisePatterns : Contains(char_name_lower, p)
                  THEN [gendered EXCEPT !.personality_trait = "wise", !.voice_type = "wise"]
                  ELSE gendered

\* what json.loads yields: an object with its fields, or an array with its
\* items
JsonObject(fields) == [kind |-> "object", fields |-> fields, items |-> <<>>]
JsonArray(items) == [kind |-> "array", fields |-> EmptyDict, items |-> items]

\* the content of the first choice of a classifier response: text that
\* json.loads rejects, a JSON object with some of the fields, or a JSON array
\* of strings
VillainContent == JsonObject([personality_trait |-> "villainous"])
ChildContent ==
    JsonObject([gender |-> "female", age_group |-> "child",
                personality_trait |-> "friendly", voice_type |-> "soft",
                confidence |-> 90])
TextContent == [kind |-> "text", fields |-> EmptyDict, items |-> <<>>]
FieldListContent ==
    JsonArray(<<"gender", "age_group", "personality_trait", "voice_type", "confidence">>)
ShortListContent == JsonArray(<<"gender">>)

ChoiceOf(content) == <<[message |-> [content |-> content]]>>

\* what the classifier service answers to the first post of a call and to the
\* post of its retry (not looked at when there is no retry)
Answer(kind, body) == [kind |-> kind, body |-> body]
Failure(kind) == Answer(kind, EmptyDict)
UsageBody(content) ==
    [choices |-> ChoiceOf(content),
     usage |-> [prompt_tokens |-> 1000, completion_tokens |-> 500, total_tokens |-> 1500]]
NameReplies ==
    {<<Failure("transport_error"), Failure("transport_error")>>,
     <<Answer("ok", [choices |-> ChoiceOf(TextContent)]), Failure("http_error")>>,
     <<Answer("ok", [choices |-> ChoiceOf(VillainContent)]), Failure("http_error")>>,
     <<Answer("ok", UsageBody(ChildContent)), Failure("http_error")>>,
     <<Failure("throttle"), Answer("ok", [choices |-> ChoiceOf(VillainContent)])>>,
     <<Failure("throttle"), Answer("ok", EmptyDict)>>,
     <<Answer("ok", [choices |-> ChoiceOf(FieldListContent)]), Failure("http_error")>>,
     <<Failure("throttle"), Answer("ok", [choices |-> ChoiceOf(ShortListContent)])>>}

\* "Validate required fields" on what json.loads yielded: an object gets its
\* missing fields; on an array `field not in analysis` looks among the items,
\* and the assignment of a missing field raises, which the handler of the
\* outer try catches (<<>>)
Validated(content) ==
    IF content.kind = "object"
    THEN <<JsonObject(FillRequired(content.fields))>>
    ELSE IF RequiredFields \subseteq {content.items[i] : i \in 1..Len(content.items)}
    THEN <<content>>
    ELSE <<>>

\* analyze_character_name_with_ai, from its try to its return, on a name that
\* is not in name_analysis_cache: the analysis it caches and returns, <<>>
\* when the call raised, the response has no choices, the content does not
\* parse, or the validation raised
AiAnalysis(api) ==
    IF /\ api.returned
       /\ "choices" \in DOMAIN api.result
       /\ Len(api.result.choices) > 0
       /\ api.result.choices[1].message.content.kind # "text"
    THEN Validated(api.result.choices[1].message.content)
    ELSE <<>>

\* analyze_character_name_with_ai after json.loads: ai is <<analysis>> or <<>>
AnalysisParsed(acache, char_name, api, ai) ==
    [analysis |-> IF ai # <<>> THEN ai[1]
                  ELSE JsonObject(fallback_name_analysis(char_name)),
     name_analysis_cache |->
        IF ai # <<>> THEN Put(acache, Lower(char_name), ai[1]) ELSE acache,
     limiters |-> api.limiters, now |-> api.now, stats |-> api.stats,
     record |-> api.record]

\* analyze_character_name_with_ai after make_api_call has returned or raised
AnalysisAfterCall(acache, char_name, api) ==
    AnalysisParsed(acache, char_name, api, AiAnalysis(api))

\* analyze_character_name_with_ai: the analysis returned, the cache and what
\* the classifier call changed
analyze_character_name_with_ai(acache, lims, t, stats, char_name, reply) ==
    IF Lower(char_name) \in DOMAIN acache
    THEN [analysis |-> acache[Lower(char_name)], name_analysis_cache |-> acache,
          limiters |-> lims, now |-> t, stats |-> stats, record |-> <<>>]
    ELSE AnalysisAfterCall(acache, char_name,
                           MakeApiCall(lims, t, stats, "name_analysis", reply))

english_voices ==
    [narrator |->
        <<"English_expressive_narrator", "English_CaptivatingStoryteller",
          "English_WiseScholar">>,
     female |->
        <<"English_radiant_girl", "English_compelling_lady1",
          "English_captivating_female1", "English_Upbeat_Woman", "English_CalmWoman",
          "English_Graceful_Lady", "English_PlayfulGirl", "English_LovelyGirl",
          "English_Wiselady", "English_SentimentalLady", "English_Soft-spokenGirl">>,
     male |->
        <<"English_magnetic_voiced_man", "English_Aussie_Bloke",
          "English_Trustworth_Man", "English_Gentle-voiced_man",
          "English_Diligent_Man", "English_ReservedYoungMan",
          "English_ManWithDeepVoice", "English_FriendlyPerson", "English_Debator",
          "English_Steadymentor", "English_Deep-VoicedGentleman",
          "English_DecentYoungMan", "English_PassionateWarrior">>,
     villain |->
        <<"English_ManWithDeepVoice", "English_Deep-VoicedGentleman",
          "English_ImposingManner">>,
     child |->
        <<"English_radiant_girl", "English_PlayfulGirl", "English_LovelyGirl",
          "English_Soft-spokenGirl">>,
     elder |->
        <<"English_WiseScholar", "English_Wiselady", "English_MaturePartner",
          "English_Steadymentor">>]

\* "Select appropriate voice category" and "Special cases based on personality"
VoiceCategory(analysis) ==
    LET gender == Get(analysis, "gender", "unknown")
        age_group == Get(analysis, "age_group", "unknown")
        personality == Get(analysis, "personality_trait", "unknown")
        by_age == IF age_group = "child" THEN "child"
                  ELSE IF age_group = "elder" THEN "elder"
                  ELSE gender
        voice_category == IF gender \in {"female", "male"} THEN by_age ELSE "male"
    IN  IF personality \in {"villainous", "sinister", "evil"} THEN "villain"
        ELSE IF personality \in {"wise", "scholarly", "mentor"} THEN "elder"
        ELSE voice_category

\* available_voices[self.voice_selection_index[voice_category] % len(available_voices)]
SelectedVoice(index, voice_category) ==
    LET available_voices == english_voices[voice_category]
    IN  available_voices[(Get(index, voice_category, 0) % Len(available_voices)) + 1]

\* self.voice_selection_index[voice_category] += 1
AdvanceIndexMutant(index, voice_category) ==
    Put(index, voice_category, Get(index, voice_category, 0))
AdvanceIndex(index, voice_category) ==
    Put(index, voice_category, Get(index, voice_category, 0) + 1)

\* "Create character with selected voice"
AiCharacter(char_name, analysis, selected_voice) ==
    Character(char_name,
              <<"AI-generated character with ", Get(analysis, "gender", "unknown"),
                " voice, ", Get(analysis, "age_group", "unknown"),
                " age group, ", Get(analysis, "personality_trait", "unknown"),
                " personality">>,
              selected_voice, 100, 100, 0, "neutral")

\* "if char_name in self.name_voice_cache"
CacheHitMutant(cache, char_name) == FALSE
CacheHit(cache, char_name) == char_name \in DOMAIN cache

\* self.name_voice_cache[char_name] = character
CacheStoreMutant(cache, char_name, character) == cache
CacheStore(cache, char_name, character) == Put(cache, char_name, character)

\* map_character_name_to_voice from "Create character with selected voice"
MapCreated(cache, index, char_name, a, voice_category, character) ==
    [raised |-> FALSE,
     character |-> character, fresh |-> TRUE, voice_category |-> voice_category,
     name_voice_cache |-> CacheStore(cache, char_name, character),
     name_analysis_cache |-> a.name_analysis_cache,
     voice_selection_index |-> AdvanceIndex(index, voice_category),
     limiters |-> a.limiters, now |-> a.now, stats |-> a.stats,
     record |-> a.record]

\* map_character_name_to_voice from "Get available voices for this category"
MapSelected(cache, index, char_name, a, voice_category) ==
    MapCreated(cache, index, char_name, a, voice_category,
               AiCharacter(char_name, a.analysis.fields,
                           SelectedVoice(index, voice_category)))

\* the profile slot of a call that raised
NoCharacter == Character(<<>>, <<>>, "", 0, 0, 0, "")

\* map_character_name_to_voice when analysis.get raises AttributeError: the
\* call returns no profile, and the session keeps what the analysis changed
MapRaised(cache, index, a) ==
    [raised |-> TRUE,
     character |-> NoCharacter, fresh |-> FALSE, voice_category |-> "",
     name_voice_cache |-> cache,
     name_analysis_cache |-> a.name_analysis_cache,
     voice_selection_index |-> index,
     limiters |-> a.limiters, now |-> a.now, stats |-> a.stats,
     record |-> a.record]

\* map_character_name_to_voice after the analysis a of a name not in the
\* cache: analysis.get exists on an object only
MapAnalyzed(cache, index, char_name, a) ==
    IF a.analysis.kind = "object"
    THEN MapSelected(cache, index, char_name, a, VoiceCategory(a.analysis.fields))
    ELSE MapRaised(cache, index, a)

\* map_character_name_to_voice: the profile returned and the session after it
map_character_name_to_voice(cache, acache, index, lims, t, stats, char_name, reply) ==
    IF CacheHit(cache, char_name)
    THEN [raised |-> FALSE,
          character |-> cache[char_name], fresh |-> FALSE, voice_category |-> "",
          name_voice_cache |-> cache, name_analysis_cache |-> acache,
          voice_selection_index |-> index,
          limiters |-> lims, now |-> t, stats |-> stats, record |-> <<>>]
    ELSE MapAnalyzed(cache, index, char_name,
                     analyze_character_name_with_ai(acache, lims, t, stats,
                                                    char_name, reply))

\* one call of the resolver on the session, with reply what the classifier
\* would answer
Resolve(char_name, reply) ==
    map_character_name_to_voice(name_voice_cache, name_analysis_cache,
                                voice_selection_index, limiters, now, api_usage_stats,
                                char_name, reply)

\* the session after the resolution m of char_name
Resolved(char_name, m) ==
    /\ name_voice_cache' = m.name_voice_cache
    /\ name_analysis_cache' = m.name_analysis_cache
    /\ voice_selection_index' = m.voice_selection_index
    /\ limiters' = m.limiters
    /\ now' = m.now
    /\ api_usage_stats' = m.stats
    /\ last_record' = IF m.record # <<>> THEN m.record[1] ELSE last_record
    /\ history' = Append(history,
                         [char_name |-> char_name, raised |-> m.raised,
                          character |-> m.character,
                          fresh |-> m.fresh, voice_category |-> m.voice_category])

Str_KAEL == <<"K", "A", "E", "L">>
Str_Vex == <<"V", "e", "x">>
Str_Luna == <<"L", "u", "n", "a">>
Names == {Str_Kael, Str_KAEL, Str_Vex, Str_Luna}

\* number of calls of map_character_name_to_voice
MaxResolutions == 4

\* a caller resolves a name
ResolveName ==
    /\ UNCHANGED voice_frame
    /\ parse_pc \in {"idle", "raised"}
    /\ Len(history) < MaxResolutions
    /\ \E char_name \in Names, reply \in NameReplies :
         Resolved(char_name, Resolve(char_name, reply))
    /\ UNCHANGED <<characters, parse_vars>>

\* characters the callers register: the wizard of main() and the narrator
\* template of config.py
WizardCharacter ==
    Character(<<"W", "i", "z", "a", "r", "d">>,
              <<"A mysterious mentor figure with ancient wisdom, who guides others while carrying their own burdens and secrets">>,
              "English_WiseScholar", 90, 100, 0, "wise")
AddableCharacters == {WizardCharacter, NarratorCharacter}

\* add_character
AddCharacter ==
    /\ UNCHANGED voice_frame
    /\ parse_pc \in {"idle", "raised"}
    /\ \E character \in AddableCharacters :
         characters' = Put(characters, Lower(character.name), character)
    /\ UNCHANGED <<now, limiters, api_usage_stats, last_record, name_voice_cache,
                   name_analysis_cache, voice_selection_index, history, parse_vars>>

\* the session as __init__ leaves it; of self.characters, the entry the
\* parser reads
VoiceIdle ==
    /\ characters = Put(EmptyDict, Lower(Str_Narrator), NarratorCharacter)
    /\ name_voice_cache = EmptyDict
    /\ name_analysis_cache = EmptyDict
    /\ voice_selection_index = EmptyDict
    /\ history = <<>>

(***************************************************************************)
(* Parser: parse_story_into_segments                                       *)
(***************************************************************************)
Story_Example ==
    <<"N", "a", "r", "r", "a", "t", "o", "r", ":", " ", "T", "h", "e", " ", "s", "u",
      "n", " ", "r", "o", "s", "e", ".", "\n", "K", "a", "e", "l", ":", " ", "I", " ",
      "m", "u", "s", "t", " ", "g", "o", "!", "\n", "j", "u", "s", "t", " ", "t", "e",
      "x", "t">>
Story_Stage ==
    <<"\n", " ", " ", "K", "a", "e", "l", " ", "(", "a", "n", "g", "r", "i", "l", "y",
      ")", ":", " ", "G", "o", ":", " ", "n", "o", "w", "!", " ", "\n", " ", "\t",
      "\r", "\n", " ", "t", "h", "e", " ", "e", "n", "d", " ", "\n", ":", " ", "x">>
Story_Case ==
    <<"K", "A", "E", "L", ":", "\n", "\n", "k", "a", "e", "l", ":", " ", "h", "m">>
Story_Empty ==
    <<>>
Story_Aside ==
    <<"(", "a", "s", "i", "d", "e", ")", ":", " ", "p", "s", "s", "t", "\n", "N", "a",
      "r", "r", "a", "t", "o", "r", ":", " ", "o", "k", "\n", "p", "l", "a", "i", "n">>
Stories == {Story_Example, Story_Stage, Story_Case, Story_Empty, Story_Aside}

\* segments.append(...)
AddSegmentMutant(segs, segment) == <<segment>> \o segs
AddSegment(segs, segment) == Append(segs, segment)

\* "if not line: continue"
Skips(line) == line = <<>>

\* StorySegment(character=self.characters["narrator"], text=line)
NarrationSegmentMutant(line) ==
    StorySegment(characters[Lower(Str_Narrator)], SubSeq(line, 1, Len(line) - 1))
NarrationSegment(line) == StorySegment(characters[Lower(Str_Narrator)], line)

\* char_name_part.split("(")[0].strip()
CharNameMutant(char_name_part) == Strip(char_name_part)
CharName(char_name_part) == Strip(Split(char_name_part, "(")[1])

\* number of calls of parse_story_into_segments
MaxParses == 1

\* no call of parse_story_into_segments is under way: none has begun, or the
\* last one has returned ("idle") or raised ("raised")
NotParsing == parse_pc \in {"idle", "raised"}

\* parse_story_into_segments up to its loop
ParseBegin ==
    /\ UNCHANGED voice_frame
    /\ NotParsing
    /\ parses < MaxParses
    /\ \E s \in Stories :
         /\ story' = s
         /\ lines' = Split(s, "\n")
    /\ segments' = <<>>
    /\ origin' = <<>>
    /\ line_i' = 1
    /\ parses' = parses + 1
    /\ parse_pc' = "line"
    /\ UNCHANGED <<now, limiters, api_usage_stats, last_record, characters, voice_vars>>

\* the loop body from segments.append, m being what the resolver returned;
\* when the resolver raised, the parse ends there without a result
AppendLabelledMutant(char_name, dialogue, m) ==
    IF char_name = <<>>
    THEN /\ segments' = AddSegment(segments, NarrationSegment(dialogue))
         /\ UNCHANGED <<now, limiters, api_usage_stats, last_record, voice_vars,
                        parse_pc>>
    ELSE /\ Resolved(char_name, m)
         /\ segments' = IF m.raised THEN segments
                        ELSE AddSegment(segments, StorySegment(m.character, dialogue))
         /\ parse_pc' = IF m.raised THEN "raised" ELSE parse_pc
AppendLabelled(char_name, dialogue, m) ==
    /\ Resolved(char_name, m)
    /\ segments' = IF m.raised THEN segments
                   ELSE AddSegment(segments, StorySegment(m.character, dialogue))
    /\ parse_pc' = IF m.raised THEN "raised" ELSE parse_pc

\* the loop body from "Map the character name to a voice profile"
ParseLabelled(char_name, dialogue) ==
    \E reply \in NameReplies :
        AppendLabelled(char_name, dialogue, Resolve(char_name, reply))

\* the loop body from "parts = line.split(":", 1)"
ParseParts(line, parts) ==
    IF Len(parts) = 2
    THEN ParseLabelled(CharName(Strip(parts[1])), Strip(parts[2]))
    ELSE /\ segments' = AddSegment(segments, NarrationSegment(line))
         /\ UNCHANGED <<now, limiters, api_usage_stats, last_record, voice_vars,
                        parse_pc>>

\* the loop body after "line = line.strip()"
ParseStripped(line) ==
    IF Skips(line)
    THEN UNCHANGED <<segments, origin, now, limiters, api_usage_stats, last_record,
                     voice_vars, parse_pc>>
    ELSE /\ origin' = Append(origin, line_i)
         /\ IF IndexOf(line, ":") > 0
            THEN ParseParts(line, SplitOnce(line, ":"))
            ELSE /\ segments' = AddSegment(segments, NarrationSegment(line))
                 /\ UNCHANGED <<now, limiters, api_usage_stats, last_record, voice_vars,
                                parse_pc>>

\* one pass of the loop over the lines
ParseLine ==
    /\ UNCHANGED parse_frame
    /\ parse_pc = "line"
    /\ line_i <= Len(lines)
    /\ line_i' = line_i + 1
    /\ ParseStripped(Strip(lines[line_i]))
    /\ UNCHANGED <<characters, story, lines, parses, story_segments>>

\* self.story_segments = segments; return segments
ParseEnd ==
    /\ UNCHANGED parse_frame
    /\ parse_pc = "line"
    /\ line_i > Len(lines)
    /\ story_segments' = segments
    /\ parse_pc' = "idle"
    /\ UNCHANGED <<now, limiters, api_usage_stats, last_record, characters,
                   voice_vars, story, lines, line_i, segments, origin, parses>>

ParseIdle ==
    /\ parse_pc = "idle"
    /\ story = <<>>
    /\ lines = <<>>
    /\ line_i = 1
    /\ segments = <<>>
    /\ origin = <<>>
    /\ parses = 0

(***************************************************************************)
(* Story generation: generate_story                                        *)
(***************************************************************************)
\* s.find(sub): the 0-based position of the first occurrence, -1 without one
Find(s, sub) ==
    LET at == {i \in 0..(Len(s) - Len(sub)) : SubSeq(s, i + 1, i + Len(sub)) = sub}
    IN  IF at = {} THEN 0 - 1 ELSE CHOOSE i \in at : \A j \in at : i <= j

\* max(...) of a non-empty set of integers
SetMax(S) == CHOOSE x \in S : \A y \in S : y <= x

Str_NARRATOR_ == <<"N", "A", "R", "R", "A", "T", "O", "R", ":">>
Str_HERO_ == <<"H", "E", "R", "O", ":">>
Str_VILLAIN_ == <<"V", "I", "L", "L", "A", "I", "N", ":">>
Str_FRIEND_ == <<"F", "R", "I", "E", "N", "D", ":">>
Str_WIZARD_ == <<"W", "I", "Z", "A", "R", "D", ":">>
StoryLabels == {Str_NARRATOR_, Str_HERO_, Str_VILLAIN_, Str_FRIEND_, Str_WIZARD_}

\* what generate_story's try block ends with: a returned story or a raised
\* exception with its message
Returns(value) == [kind |-> "return", value |-> value]
Raises(message) == [kind |-> "raise", value |-> message]

\* "Try to extract from reasoning_content as fallback": <<story>> when the
\* fallback returns one, <<>> when control falls through to the raises
FromReasoning(message) ==
    IF /\ "reasoning_content" \in DOMAIN message
       /\ \/ Contains(message.reasoning_content, Str_NARRATOR_)
          \/ Contains(message.reasoning_content, Str_HERO_)
    THEN <<Strip(SubSeq(message.reasoning_content,
                        SetMax({Find(message.reasoning_content, l) : l \in StoryLabels}) + 1,
                        Len(message.reasoning_content)))>>
    ELSE <<>>

\* the else branch of "if story.strip()"
EmptyStory(message, finish_reason, extracted) ==
    IF extracted # <<>> THEN Returns(extracted[1])
    ELSE IF finish_reason = "length"
         THEN Raises("Story generation hit token limit - try reducing story length or simplifying prompt")
         ELSE Raises("Story content is empty")

\* generate_story from 'if "message" in choice'
StoryOfChoice(choice) ==
    IF "message" \in DOMAIN choice
    THEN IF "content" \in DOMAIN choice.message
         THEN IF Strip(choice.message.content) # <<>>
              THEN Returns(choice.message.content)
              ELSE EmptyStory(choice.message, Get(choice, "finish_reason", ""),
                              FromReasoning(choice.message))
         ELSE Raises("No content in message")
    ELSE Raises("No message in choice")

\* the try block of generate_story after make_api_call; a call that raised
\* raises here as well
StoryTry(api) ==
    IF ~api.returned THEN Raises("request failed")
    ELSE IF "choices" \in DOMAIN api.result /\ Len(api.result.choices) > 0
         THEN StoryOfChoice(api.result.choices[1])
         ELSE Raises("No story generated")

\* "except requests.exceptions.RequestException" and "except Exception": both
\* return None.  What the caller of generate_story gets: <<story>>, or <<>>
\* for None
Caught(outcome) == IF outcome.kind = "return" THEN <<outcome.value>> ELSE <<>>

Str_Tale == <<"H", "E", "R", "O", ":", " ", "H", "i">>
Str_Thought == <<"s", "o", " ", "H", "E", "R", "O", ":", " ", "a", "\n", "N", "A", "R", "R", "A", "T", "O", "R", ":", " ", "b">>

StoryChoice(message, finish_reason) ==
    [choices |-> <<[message |-> message, finish_reason |-> finish_reason]>>]

\* what the text service answers to a story request
StoryReplies ==
    {<<Failure("transport_error"), Failure("transport_error")>>,
     <<Failure("throttle"), Answer("ok", StoryChoice([content |-> Str_Tale], "stop"))>>,
     <<Answer("ok", EmptyDict), Failure("http_error")>>,
     <<Answer("ok", [choices |-> <<[finish_reason |-> "stop"]>>]), Failure("http_error")>>,
     <<Answer("ok", StoryChoice([role |-> "assistant"], "stop")), Failure("http_error")>>,
     <<Answer("ok", StoryChoice([content |-> <<>>], "length")), Failure("http_error")>>,
     <<Answer("ok", StoryChoice([content |-> <<" ", "\n">>], "stop")), Failure("http_error")>>,
     <<Answer("ok", StoryChoice([content |-> <<>>, reasoning_content |-> Str_Thought],
                                "length")), Failure("http_error")>>}

\* number of calls of generate_story
MaxStories == 3

\* generate_story
GenerateStory ==
    /\ UNCHANGED story_frame
    /\ Len(story_log) < MaxStories
    /\ \E reply \in StoryReplies :
         \E api \in {MakeApiCall(limiters, now, api_usage_stats, "story_generation", reply)} :
           \E outcome \in {StoryTry(api)} :
             /\ limiters' = api.limiters
             /\ now' = api.now
             /\ api_usage_stats' = api.stats
             /\ last_record' = IF api.record # <<>> THEN api.record[1] ELSE last_record
             /\ current_story' =
                  IF outcome.kind = "return" THEN outcome.value ELSE current_story
             /\ story_log' = Append(story_log,
                                    [returned |-> api.returned, result |-> api.result,
                                     got |-> Caught(outcome)])

StoryIdle ==
    /\ current_story = <<>>
    /\ story_log = <<>>

(***************************************************************************)
(* Character templates: create_character_from_template (config.py)         *)
(***************************************************************************)
UpperChar(c) ==
    CASE c = "a" -> "A"
      [] c = "b" -> "B"
      [] c = "c" -> "C"
      [] c = "d" -> "D"
      [] c = "e" -> "E"
      [] c = "f" -> "F"
      [] c = "g" -> "G"
      [] c = "h" -> "H"
      [] c = "i" -> "I"
      [] c = "j" -> "J"
      [] c = "k" -> "K"
      [] c = "l" -> "L"
      [] c = "m" -> "M"
      [] c = "n" -> "N"
      [] c = "o" -> "O"
      [] c = "p" -> "P"
      [] c = "q" -> "Q"
      [] c = "r" -> "R"
      [] c = "s" -> "S"
      [] c = "t" -> "T"
      [] c = "u" -> "U"
      [] c = "v" -> "V"
      [] c = "w" -> "W"
      [] c = "x" -> "X"
      [] c = "y" -> "Y"
      [] c = "z" -> "Z"
      [] OTHER -> c

\* a character that has an upper and a lower case
IsCased(c) == LowerChar(c) # c \/ UpperChar(c) # c

\* str.title(): a cased character is upper-cased at the start and after an
\* uncased character, and lower-cased after a cased one
Title(s) ==
    IF s = <<>> THEN <<>>
    ELSE [i \in 1..Len(s) |->
            IF i > 1 /\ IsCased(s[i - 1]) THEN LowerChar(s[i]) ELSE UpperChar(s[i])]

VOICE_IDS ==
    [wise_woman |-> "English_Wiselady",
     young_female |-> "English_radiant_girl",
     mature_female |-> "English_CalmWoman",
     young_male |-> "English_ReservedYoungMan",
     mature_male |-> "English_Trustworth_Man",
     deep_male |-> "English_ManWithDeepVoice",
     villain |-> "English_ManWithDeepVoice",
     narrator |-> "English_expressive_narrator",
     child |-> "English_PlayfulGirl",
     elder |-> "English_WiseScholar"]

\* speed, volume and pitch in hundredths
CHARACTER_TEMPLATES ==
    [hero |->
        [name |-> <<"H", "e", "r", "o">>,
         description |->
            <<"A courageous protagonist with a heart of gold, facing inner doubts and external challenges with determination and growth">>,
         voice_id |-> "English_magnetic_voiced_man", speed |-> 100, volume |-> 100, pitch |-> 0,
         emotion |-> "brave"],
     villain |->
        [name |-> <<"V", "i", "l", "l", "a", "i", "n">>,
         description |->
            <<"A complex antagonist with layers of motivation, not purely evil but driven by pain, fear, or misguided beliefs">>,
         voice_id |-> "English_ManWithDeepVoice", speed |-> 80, volume |-> 100, pitch |-> 0 - 30,
         emotion |-> "sinister"],
     friend |->
        [name |-> <<"F", "r", "i", "e", "n", "d">>,
         description |->
            <<"A loyal companion who provides emotional support, wisdom, and sometimes tough love when needed">>,
         voice_id |-> "English_radiant_girl", speed |-> 110, volume |-> 100, pitch |-> 20,
         emotion |-> "friendly"],
     wizard |->
        [name |-> <<"W", "i", "z", "a", "r", "d">>,
         description |->
            <<"A mysterious mentor figure with ancient wisdom, who guides others while carrying their own burdens and secrets">>,
         voice_id |-> "English_WiseScholar", speed |-> 90, volume |-> 100, pitch |-> 0,
         emotion |-> "wise"],
     narrator |->
        [name |-> <<"N", "a", "r", "r", "a", "t", "o", "r">>,
         description |->
            <<"A wise storyteller with a warm, engaging voice who brings the world to life with vivid descriptions">>,
         voice_id |-> "English_expressive_narrator", speed |-> 100, volume |-> 100, pitch |-> 0,
         emotion |-> "calm"],
     princess |->
        [name |-> <<"P", "r", "i", "n", "c", "e", "s", "s">>,
         description |->
            <<"A strong-willed royal with hidden depths, balancing duty with personal desires and inner strength">>,
         voice_id |-> "English_Graceful_Lady", speed |-> 100, volume |-> 100, pitch |-> 10,
         emotion |-> "noble"],
     knight |->
        [name |-> <<"K", "n", "i", "g", "h", "t">>,
         description |->
            <<"A honorable warrior bound by duty, struggling with the weight of responsibility and personal honor">>,
         voice_id |-> "English_Trustworth_Man", speed |-> 100, volume |-> 100, pitch |-> 10,
         emotion |-> "honorable"],
     dragon |->
        [name |-> <<"D", "r", "a", "g", "o", "n">>,
         description |->
            <<"A powerful being with ancient wisdom, often misunderstood but capable of great kindness or destruction">>,
         voice_id |-> "English_ManWithDeepVoice", speed |-> 70, volume |-> 100, pitch |-> 0 - 40,
         emotion |-> "mysterious"],
     detective |->
        [name |-> <<"D", "e", "t", "e", "c", "t", "i", "v", "e">>,
         description |->
            <<"A sharp-minded investigator with a troubled past, driven by justice but haunted by personal demons">>,
         voice_id |-> "English_Diligent_Man", speed |-> 90, volume |-> 100, pitch |-> 0 - 10,
         emotion |-> "determined"],
     elder |->
        [name |-> <<"E", "l", "d", "e", "r">>,
         description |->
            <<"A wise figure with years of experience, offering guidance while dealing with their own mortality and regrets">>,
         voice_id |-> "English_WiseScholar", speed |-> 80, volume |-> 100, pitch |-> 0 - 10,
         emotion |-> "wise"],
     child |->
        [name |-> <<"C", "h", "i", "l", "d">>,
         description |->
            <<"An innocent soul with pure heart and boundless imagination, often seeing truth that adults miss">>,
         voice_id |-> "English_PlayfulGirl", speed |-> 130, volume |-> 100, pitch |-> 30,
         emotion |-> "innocent"],
     mentor |->
        [name |-> <<"M", "e", "n", "t", "o", "r">>,
         description |->
            <<"A guiding figure who teaches through experience, balancing tough lessons with compassion and understanding">>,
         voice_id |-> "English_WiseScholar", speed |-> 90, volume |-> 100, pitch |-> 0,
         emotion |-> "wise"],
     outcast |->
        [name |-> <<"O", "u", "t", "c", "a", "s", "t">>,
         description |->
            <<"A misunderstood soul with hidden talents, seeking acceptance while maintaining their unique identity">>,
         voice_id |-> "English_ReservedYoungMan", speed |-> 100, volume |-> 100, pitch |-> 0 - 20,
         emotion |-> "lonely"],
     guardian |->
        [name |-> <<"G", "u", "a", "r", "d", "i", "a", "n">>,
         description |->
            <<"A protective figure with fierce loyalty, willing to sacrifice everything for those they love">>,
         voice_id |-> "English_Trustworth_Man", speed |-> 100, volume |-> 100, pitch |-> 0,
         emotion |-> "protective"]]

\* "if custom_name": neither None nor the empty string
Truthy(custom) == custom # <<>> /\ custom[1] # <<>>

\* custom_name after "Ensure proper capitalization for custom names"
TitledName(custom) ==
    IF Truthy(custom) THEN <<Title(custom[1])>> ELSE custom

\* VOICE_IDS.get(template["voice_id"], template["voice_id"])
TemplateVoice(template) == Get(VOICE_IDS, template.voice_id, template.voice_id)

\* create_character_from_template from "template = CHARACTER_TEMPLATES[...]"
CharacterOf(template, titled) ==
    Character(IF Truthy(titled) THEN titled[1] ELSE template.name,
              template.description, TemplateVoice(template),
              template.speed, template.volume, template.pitch,
              Get(template, "emotion", "neutral"))

create_character_from_template(name, custom) ==
    IF name \notin DOMAIN CHARACTER_TEMPLATES
    THEN Raises("Unknown character template")
    ELSE Returns(CharacterOf(CHARACTER_TEMPLATES[name], TitledName(custom)))

\* the arguments of the calls: every template and a name that is none, and
\* None, "" and names in several letter cases
TemplateNames == DOMAIN CHARACTER_TEMPLATES \cup {"pirate"}
Str_TestHero == <<"T", "e", "s", "t", "H", "e", "r", "o">>
Str_Alex == <<"A", "l", "e", "x">>
Str_dark_lord == <<"d", "a", "r", "k", " ", "l", "o", "r", "d">>
Str_ONeil == <<"O", "'", "N", "e", "i", "l">>
CustomNames == {<<>>, <<(<<>>)>>, <<Str_TestHero>>, <<Str_Alex>>, <<Str_dark_lord>>,
                <<Str_ONeil>>}

\* one call of create_character_from_template on the arguments
CreateFromTemplate ==
    /\ UNCHANGED template_frame
    /\ created = <<>>
    /\ created' = <<create_character_from_template(template_name, custom_name)>>
    /\ UNCHANGED <<template_name, custom_name>>

TemplateInit ==
    /\ template_name \in TemplateNames
    /\ custom_name \in CustomNames
    /\ created = <<>>

\* no call of create_character_from_template
TemplateIdle ==
    /\ template_name = ""
    /\ custom_name = <<>>
    /\ created = <<>>

(***************************************************************************)
(* The streaming mode: generate_streaming_audio (interactive_storyteller)  *)
(* and example_streaming_audio (example_usage)                             *)
(***************************************************************************)
\* the methods class MiniMaxStoryTeller defines; the class has no base class
\* and no __getattr__
Methods ==
    {"__init__", "add_character", "generate_story_prompt", "make_api_call",
     "get_usage_statistics", "print_usage_summary", "generate_story",
     "analyze_character_name_with_ai", "fallback_name_analysis",
     "map_character_name_to_voice", "parse_story_into_segments",
     "generate_audio_for_segment", "generate_full_story_audio", "play_audio_file",
     "create_story_script"}

\* the attribute lookup storyteller.<method>
Lookup(method) ==
    IF method \in Methods THEN Returns(method) ELSE Raises("AttributeError")

\* number of calls of the streaming mode
MaxStreamRuns == 2

\* self.storyteller.generate_full_story_audio_streaming("interactive_audio"):
\* the lookup comes before the call and before asyncio.run, and it raises, so
\* that nothing is opened, sent or closed
GenerateStreamingAudio ==
    /\ UNCHANGED stream_frame
    /\ NotParsing
    /\ Len(streaming_log) < MaxStreamRuns
    /\ Lookup("generate_full_story_audio_streaming").kind = "raise"
    /\ streaming_log' =
         Append(streaming_log,
                [segments |-> Len(story_segments),
                 outcome |-> Lookup("generate_full_story_audio_streaming")])
    /\ UNCHANGED <<ws_opened, ws_frames, ws_closed>>

\* no channel has been opened
StreamIdle ==
    /\ ws_opened = 0
    /\ ws_frames = <<>>
    /\ ws_closed = 0
    /\ streaming_log = <<>>

(***************************************************************************)
(* The classification steps of map_character_name_to_voice on every input: *)
(* the analysis of a name, by fallback_name_analysis or as the classifier  *)
(* answered it, and the voice category chosen for the analysis             *)
(***************************************************************************)
\* the values the prompt of analyze_character_name_with_ai offers, and the
\* further personalities the category mapping tests for
Genders == {"male", "female", "neutral", "unknown"}
AgeGroups == {"child", "young_adult", "adult", "elder", "unknown"}
Personalities == {"heroic", "friendly", "villainous", "wise", "mysterious", "neutral",
                  "sinister", "evil", "scholarly", "mentor"}
Classifications ==
    [gender : Genders, age_group : AgeGroups, personality_trait : Personalities,
     voice_type : {"neutral"}, confidence : {DefaultConfidence}]

Name_Merlin == <<"M", "e", "r", "l", "i", "n">>
Name_Sage == <<"S", "a", "g", "e">>
Name_Darksage == <<"D", "a", "r", "k", "s", "a", "g", "e">>
Name_Sunelder == <<"S", "u", "n", "e", "l", "d", "e", "r">>
Name_Wisestar == <<"W", "i", "s", "e", "s", "t", "a", "r">>
Name_ELDER == <<"E", "L", "D", "E", "R">>
Name_Malwise == <<"M", "a", "l", "w", "i", "s", "e">>
Name_Luna == <<"L", "u", "n", "a">>
Name_Vex == <<"V", "e", "x">>
Name_Brm == <<"B", "r", "m">>
Name_Leo == <<"L", "e", "o">>
Name_Empty == <<>>
HeuristicNames ==
    {Name_Merlin, Name_Sage, Name_Darksage, Name_Sunelder, Name_Wisestar, Name_ELDER,
       Name_Malwise, Name_Luna, Name_Vex, Name_Brm, Name_Leo, Name_Empty}

\* the name is analysed by fallback_name_analysis
AnalyzeByHeuristic ==
    /\ UNCHANGED classify_frame
    /\ classify_pc = "input"
    /\ classified' = <<fallback_name_analysis(named)>>
    /\ classify_pc' = "heuristic"
    /\ UNCHANGED <<named, category>>

\* the name is analysed by the classifier, whose answer has every field
AnalyzeByClassifier ==
    /\ UNCHANGED classify_frame
    /\ classify_pc = "input"
    /\ \E analysis \in Classifications : classified' = <<analysis>>
    /\ classify_pc' = "answered"
    /\ UNCHANGED <<named, category>>

\* "Select appropriate voice category" and "Special cases based on personality"
SelectCategory ==
    /\ UNCHANGED classify_frame
    /\ classify_pc \in {"heuristic", "answered"}
    /\ category' = VoiceCategory(classified[1])
    /\ classify_pc' = "done"
    /\ UNCHANGED <<named, classified>>

\* a name is about to be analysed
ClassifyInit ==
    /\ classify_pc = "input"
    /\ named \in HeuristicNames
    /\ classified = <<>>
    /\ category = ""

\* no name is being analysed
ClassifyIdle ==
    /\ classify_pc = "idle"
    /\ named = <<>>
    /\ classified = <<>>
    /\ category = ""

(***************************************************************************)
(* Specifications                                                          *)
(***************************************************************************)
\* one limiter, called at arbitrary times
RLNext == WaitBegin \/ CeilingSleep \/ IntervalSleep \/ Advance
SpecRLInit == RLInit /\ LedgerIdle /\ OrchIdle /\ VoiceIdle /\ ParseIdle /\ StoryIdle
              /\ TemplateIdle /\ StreamIdle /\ ClassifyIdle /\ SummaryIdle
SpecRL == SpecRLInit /\ [][RLNext]_vars

\* the same, with a clock that advances: a time.sleep that has begun returns
SpecRLFair == SpecRL /\ WF_vars(CeilingSleep) /\ WF_vars(IntervalSleep)

\* the cost block applied to responses of every model
SpecCostInit == RLInit /\ LedgerIdle /\ OrchIdle /\ VoiceIdle /\ ParseIdle /\ StoryIdle
              /\ TemplateIdle /\ StreamIdle /\ ClassifyIdle /\ SummaryIdle
SpecCostNext == RecordCall \/ GetUsageStatistics
SpecCost == SpecCostInit /\ [][SpecCostNext]_vars

\* outbound calls: chat calls and runs of generate_full_story_audio
SpecOrchInit == RLInit /\ LedgerIdle /\ OrchInit /\ VoiceIdle /\ ParseIdle /\ StoryIdle
              /\ TemplateIdle /\ StreamIdle /\ ClassifyIdle /\ SummaryIdle
SpecOrch == SpecOrchInit /\ [][OrchNext]_vars

\* one session whose callers resolve names
SpecVoiceInit == RLInit /\ LedgerIdle /\ OrchIdle /\ VoiceIdle /\ ParseIdle /\ StoryIdle
              /\ TemplateIdle /\ StreamIdle /\ ClassifyIdle /\ SummaryIdle
SpecVoiceNext == ResolveName
SpecVoice == SpecVoiceInit /\ [][SpecVoiceNext]_vars

\* one session whose callers register characters and parse stories
ParseNext == AddCharacter \/ ParseBegin \/ ParseLine \/ ParseEnd
SpecParseInit == RLInit /\ LedgerIdle /\ OrchIdle /\ VoiceIdle /\ ParseIdle /\ StoryIdle
              /\ TemplateIdle /\ StreamIdle /\ ClassifyIdle /\ SummaryIdle
SpecParse == SpecParseInit /\ [][ParseNext]_vars

\* one session whose callers generate stories
SpecStoryInit == RLInit /\ LedgerIdle /\ OrchIdle /\ VoiceIdle /\ ParseIdle /\ StoryIdle
              /\ TemplateIdle /\ StreamIdle /\ ClassifyIdle /\ SummaryIdle
SpecStoryNext == GenerateStory
SpecStory == SpecStoryInit /\ [][SpecStoryNext]_vars

\* one session whose callers parse stories and then ask for streaming audio
SpecStreamInit ==
    RLInit /\ LedgerIdle /\ OrchIdle /\ VoiceIdle /\ ParseIdle /\ StoryIdle
    /\ TemplateIdle /\ StreamIdle /\ ClassifyIdle /\ SummaryIdle
SpecStreamNext == ParseNext \/ GenerateStreamingAudio
SpecStream == SpecStreamInit /\ [][SpecStreamNext]_vars

\* calls of create_character_from_template on every pair of arguments
SpecTemplateInit ==
    RLInit /\ LedgerIdle /\ OrchIdle /\ VoiceIdle /\ ParseIdle /\ StoryIdle
    /\ TemplateInit /\ StreamIdle /\ ClassifyIdle /\ SummaryIdle
SpecTemplateNext == CreateFromTemplate
SpecTemplate == SpecTemplateInit /\ [][SpecTemplateNext]_vars

\* the analysis and the category mapping on every name and every answer
SpecClassifyInit ==
    RLInit /\ LedgerIdle /\ OrchIdle /\ VoiceIdle /\ ParseIdle /\ StoryIdle
    /\ TemplateIdle /\ StreamIdle /\ ClassifyInit /\ SummaryIdle
SpecClassifyNext == AnalyzeByHeuristic \/ AnalyzeByClassifier \/ SelectCategory
SpecClassify == SpecClassifyInit /\ [][SpecClassifyNext]_vars

(***************************************************************************)
(* Claims                                                                  *)
(***************************************************************************)

\* number of recorded timestamps of the trailing 60 seconds
InWindow(times, t) == Cardinality({i \in 1..Len(times) : t - times[i] < Window})

\* ---- C1 (SpecRL)
\* C1: at every point in time, at most requests_per_minute of the recorded
\* timestamps lie in the preceding 60 seconds
C1_RateBound == InWindow(request_times, now) <= RPM

\* the ceiling was reached, the call slept and has recorded its request
C1_Witness ==
    /\ Len(request_times) = RPM + 1
    /\ InWindow(request_times, now) = RPM
    /\ rl_pc = "idle"

\* ---- C9 (SpecCost)
TokenTiered(model) ==
    /\ model \in DOMAIN MODEL_COSTS
    /\ {"input", "output"} \subseteq DOMAIN MODEL_COSTS[model]
FlatPerCharacter(model) ==
    /\ model \in DOMAIN MODEL_COSTS
    /\ ~TokenTiered(model)
    /\ "per_character" \in DOMAIN MODEL_COSTS[model]
PromptUnits(r) == Get(r.result.usage, "prompt_tokens", 0)
CompletionUnits(r) == Get(r.result.usage, "completion_tokens", 0)
TotalUnits(r) == Get(r.result.usage, "total_tokens", 0)

\* C9: the cost a recorded call with usage adds to the ledger is
\* prompt*input + completion*output (prices per token) for a model whose
\* pricing entry has input and output prices, total*per_character for a model
\* with a flat per-character price, and total*0.5/1e6 for a model without a
\* pricing entry
C9_PricingClassification ==
    (last_record.recorded /\ "usage" \in DOMAIN last_record.result) =>
        LET r == last_record
        IN  /\ TokenTiered(r.model) =>
                r.cost = PromptUnits(r) * MODEL_COSTS[r.model].input
                         + CompletionUnits(r) * MODEL_COSTS[r.model].output
            /\ FlatPerCharacter(r.model) =>
                r.cost = TotalUnits(r) * MODEL_COSTS[r.model].per_character
            /\ r.model \notin DOMAIN MODEL_COSTS =>
                r.cost = TotalUnits(r) * FallbackPrice

\* a call of a model without a pricing entry has been recorded with non-zero
\* units after a call of a priced model that added its own cost
C9_Witness ==
    /\ last_record.recorded
    /\ "usage" \in DOMAIN last_record.result
    /\ last_record.model \notin DOMAIN MODEL_COSTS
    /\ last_record.cost > 0
    /\ api_usage_stats.estimated_cost > last_record.cost
    /\ \E m \in DOMAIN api_usage_stats.calls_by_model :
         TokenTiered(m) \/ FlatPerCharacter(m)

\* a token-tiered call whose prompt, completion and total units all differ
C9_WitnessTiered ==
    /\ last_record.recorded
    /\ "usage" \in DOMAIN last_record.result
    /\ TokenTiered(last_record.model)
    /\ PromptUnits(last_record) = 1000
    /\ CompletionUnits(last_record) = 500

\* a per-character call with non-zero units
C9_WitnessFlat ==
    /\ last_record.recorded
    /\ "usage" \in DOMAIN last_record.result
    /\ FlatPerCharacter(last_record.model)
    /\ last_record.cost > 0

\* ---- C10 (SpecCost)
\* the call of the example: MiniMax-M1 (input 0.4, output 2.2 dollars per 1M
\* tokens) with prompt_tokens = 1000 and completion_tokens = 500
C10_ExampleCall ==
    /\ last_record.recorded
    /\ last_record.model = "MiniMax-M1"
    /\ "usage" \in DOMAIN last_record.result
    /\ PromptUnits(last_record) = 1000
    /\ CompletionUnits(last_record) = 500

\* C10 as stated: the two terms are 0.0000011 and 0.0000015 dollars and the
\* total is 0.0000026 dollars (11, 15 and 26 units of 1e-7 dollar)
C10_AsStated ==
    C10_ExampleCall =>
        /\ last_record.input_cost = 11
        /\ last_record.output_cost = 15
        /\ last_record.cost = 26

\* C10 amended: the recorded cost is 1000/1e6*0.4 + 500/1e6*2.2, whose two
\* terms are 0.0004 and 0.0011 dollars and whose total is 0.0015 dollars
\* (4000, 11000 and 15000 units of 1e-7 dollar)
C10_CostExample ==
    C10_ExampleCall =>
        /\ last_record.input_cost = 4000
        /\ last_record.output_cost = 11000
        /\ last_record.cost = 15000
        /\ last_record.cost = last_record.input_cost + last_record.output_cost

\* the example call has been recorded on a ledger that already held a call
C10_Witness ==
    /\ C10_ExampleCall
    /\ api_usage_stats.total_calls = 2
    /\ api_usage_stats.estimated_cost >= 15000

\* ---- C2 (SpecOrch)
FailedOutcomes == {"raised", "none"}

\* C2: an outbound call (chat or synthesis) makes exactly 2 HTTP attempts when
\* its first attempt is answered 429 and exactly 1 otherwise, never a third,
\* and the last attempt decides: a failed last attempt ends in failure
C2_RetryBound ==
    /\ call.attempts <= 2
    /\ last_call.finished =>
        /\ last_call.attempts =
             IF last_call.responses[1].kind = "throttle" THEN 2 ELSE 1
        /\ Len(last_call.responses) = last_call.attempts
        /\ LastResponse(last_call).kind # "ok" => last_call.outcome \in FailedOutcomes
        /\ (last_call.service = "chat" /\ LastResponse(last_call).kind = "ok")
             => last_call.outcome = "returned"

\* a synthesis call was throttled, then failed on the retry: 2 attempts, failure
C2_Witness ==
    /\ last_call.finished
    /\ last_call.service = "tts"
    /\ last_call.attempts = 2
    /\ last_call.responses[1].kind = "throttle"
    /\ last_call.responses[2].kind = "http_error"
    /\ last_call.outcome = "none"

\* the same for a chat call: the failure of the retry propagates
C2_WitnessChat ==
    /\ last_call.finished
    /\ last_call.service = "chat"
    /\ last_call.attempts = 2
    /\ last_call.responses[1].kind = "throttle"
    /\ last_call.responses[2].kind = "transport_error"
    /\ last_call.outcome = "raised"

\* ---- C3 (SpecOrch)
\* the service answered with audio that decoded and the file was written
Succeeded(e) == e.written
\* the artifacts of the logged segments, in the order of the log
ArtifactsOf(log) ==
    [k \in 1..Len(log) |-> story_segments[log[k].segment].audio_file[1]]

\* C3: when generate_full_story_audio returns, generate_audio_for_segment has
\* been called once for each segment, in segment order, whatever the earlier
\* outcomes, and the list returned holds exactly the artifacts of the segments
\* whose synthesis succeeded, in segment order
C3_PartialFailureIsolation ==
    returned_files # <<>> =>
        /\ Len(synth_log) = Len(story_segments)
        /\ \A k \in 1..Len(synth_log) : synth_log[k].segment = k
        /\ returned_files[1] = ArtifactsOf(SelectSeq(synth_log, Succeeded))

\* 3 segments, a transport error on segment 2: artifacts of segments 1 and 3
C3_Witness ==
    /\ returned_files # <<>>
    /\ Len(story_segments) = 3
    /\ Len(synth_log) = 3
    /\ synth_log[2].response.kind = "transport_error"
    /\ story_segments[1].audio_file # <<>>
    /\ story_segments[2].audio_file = <<>>
    /\ story_segments[3].audio_file # <<>>
    /\ returned_files[1] =
         <<story_segments[1].audio_file[1], story_segments[3].audio_file[1]>>

\* ---- C4 (SpecVoice)
\* C4: once map_character_name_to_voice has resolved a name, every later
\* resolution of a name equal to it ignoring letter case returns an identical
\* profile, with no re-resolution and no change of voice identifier
C4_VoiceCacheInvariant ==
    \A i, j \in 1..Len(history) :
        (i < j /\ Lower(history[i].char_name) = Lower(history[j].char_name)) =>
            /\ history[j].character = history[i].character
            /\ history[j].character.voice_id = history[i].character.voice_id
            /\ ~history[j].fresh

\* ---- C5 (SpecVoice)
\* C5: two resolutions of the same string in one session, with any
\* resolutions in between and whatever the classifier answers, return
\* profiles that are equal field for field
C5_ResolverIdempotence ==
    \A i, j \in 1..Len(history) :
        (/\ i < j
         /\ history[i].char_name = history[j].char_name
         /\ ~history[i].raised
         /\ ~history[j].raised) =>
            history[j].character = history[i].character

\* "Kael" was resolved, then a new name of the same category, then "Kael" again
C5_Witness ==
    /\ Len(history) >= 3
    /\ history[1].char_name = Str_Kael
    /\ history[2].char_name # Str_Kael
    /\ history[2].fresh
    /\ history[2].voice_category = history[1].voice_category
    /\ history[3].char_name = Str_Kael
    /\ history[3].character.voice_id # history[2].character.voice_id

\* ---- C6 (SpecVoice)
\* the identifiers assigned to the new names of a category, in order
Assigned(voice_category) ==
    LET InCategory(h) == h.fresh /\ h.voice_category = voice_category
        new == SelectSeq(history, InCategory)
    IN  [k \in 1..Len(new) |-> new[k].character.voice_id]
PoolIds(voice_category) ==
    {english_voices[voice_category][k] : k \in 1..Len(english_voices[voice_category])}

\* C6: the new names of one voice category of pool size P are assigned the
\* identifiers of the pool in cyclic pool order, so that each of the P
\* identifiers is assigned at least once before any is assigned a second time
C6_RoundRobinCoverage ==
    \A voice_category \in DOMAIN english_voices :
        LET a == Assigned(voice_category)
            pool == english_voices[voice_category]
        IN  /\ \A k \in 1..Len(a) : a[k] = pool[((k - 1) % Len(pool)) + 1]
            /\ \A j, k \in 1..Len(a) :
                 (j < k /\ a[j] = a[k]) =>
                     PoolIds(voice_category) \subseteq {a[m] : m \in 1..(k - 1)}

\* four new names of the villain category, whose pool has three identifiers:
\* the fourth is assigned the first identifier again
C6_Witness ==
    /\ Len(Assigned("villain")) = 4
    /\ Assigned("villain")[4] = Assigned("villain")[1]
    /\ Cardinality({Assigned("villain")[k] : k \in 1..3}) = 3

\* ---- C7 (SpecParse)
NonBlank(line) == \E k \in 1..Len(line) : line[k] \notin Whitespace
NonBlankLines(ls) == {i \in 1..Len(ls) : NonBlank(ls[i])}
HasColon(line) == \E k \in 1..Len(line) : line[k] = ":"
\* parse_story_into_segments has returned
ParseReturned == parse_pc = "idle" /\ parses > 0
\* the text of the segment of a line: what follows the first colon, or the
\* line, without the surrounding whitespace
TextOf(line) ==
    IF HasColon(line)
    THEN Strip(SubSeq(line, IndexOf(line, ":") + 1, Len(line)))
    ELSE Strip(line)

\* C7: parse_story_into_segments produces exactly one segment per line that is
\* non-blank after trimming, none for a blank line, and the segments are in
\* the order of their lines in the input
C7_ParserOrdering ==
    ParseReturned =>
        /\ story_segments = segments
        /\ Len(segments) = Cardinality(NonBlankLines(Split(story, "\n")))
        /\ Len(origin) = Len(segments)
        /\ {origin[k] : k \in 1..Len(origin)} = NonBlankLines(Split(story, "\n"))
        /\ \A j, k \in 1..Len(origin) : j < k => origin[j] < origin[k]
        /\ \A k \in 1..Len(segments) :
             segments[k].text = TextOf(Split(story, "\n")[origin[k]])

\* a story of five lines, two of them blank, parsed into three segments
C7_Witness ==
    /\ ParseReturned
    /\ story = Story_Stage
    /\ Len(lines) = 5
    /\ origin = <<2, 4, 5>>
    /\ Len(story_segments) = 3

\* ---- C8 (SpecParse)
\* speaker and text of each segment
Pairs(segs) == [k \in 1..Len(segs) |-> <<segs[k].character.name, segs[k].text>>]
ExamplePairs ==
    <<<<Str_Narrator, <<"T", "h", "e", " ", "s", "u", "n", " ", "r", "o", "s", "e", ".">>>>,
      <<Str_Kael, <<"I", " ", "m", "u", "s", "t", " ", "g", "o", "!">>>>,
      <<Str_Narrator, <<"j", "u", "s", "t", " ", "t", "e", "x", "t">>>>>>

\* C8: every non-blank line without a colon becomes a segment whose text is
\* the entire line (trimmed, as every line is) and whose speaker is the
\* default speaker "Narrator"; the story "Narrator: The sun rose.\nKael: I
\* must go!\njust text" yields (Narrator, "The sun rose."), (Kael, "I must
\* go!"), (Narrator, "just text") in that order
C8_NarrationDefault ==
    ParseReturned =>
        /\ \A i \in NonBlankLines(lines) :
             ~HasColon(lines[i]) =>
                 \E k \in 1..Len(segments) :
                     /\ origin[k] = i
                     /\ segments[k].character.name = Str_Narrator
                     /\ segments[k].text = Strip(lines[i])
        /\ story = Story_Example => Pairs(segments) = ExamplePairs

\* the example story has been parsed: its first segment carries the profile
\* the resolver made for the label "Narrator", its last the default speaker
C8_Witness ==
    /\ ParseReturned
    /\ story = Story_Example
    /\ Len(segments) = 3
    /\ segments[1].character # NarratorCharacter
    /\ segments[3].character = NarratorCharacter
    /\ segments[3].text = <<"j", "u", "s", "t", " ", "t", "e", "x", "t">>

\* a line without a colon that has whitespace around it
C8_WitnessTrimmed ==
    /\ ParseReturned
    /\ story = Story_Stage
    /\ ~HasColon(lines[4])
    /\ lines[4] # Strip(lines[4])
    /\ segments[2].character = NarratorCharacter

\* ---- C11 (SpecStory)
\* why a call of generate_story failed, read off the response it looked at
TokenLimitFailure(e) ==
    /\ e.returned
    /\ "choices" \in DOMAIN e.result /\ Len(e.result.choices) > 0
    /\ "message" \in DOMAIN e.result.choices[1]
    /\ "content" \in DOMAIN e.result.choices[1].message
    /\ Strip(e.result.choices[1].message.content) = <<>>
    /\ "reasoning_content" \notin DOMAIN e.result.choices[1].message
    /\ Get(e.result.choices[1], "finish_reason", "") = "length"
EmptyContentFailure(e) ==
    /\ e.returned
    /\ "choices" \in DOMAIN e.result /\ Len(e.result.choices) > 0
    /\ "message" \in DOMAIN e.result.choices[1]
    /\ "content" \in DOMAIN e.result.choices[1].message
    /\ Strip(e.result.choices[1].message.content) = <<>>
    /\ "reasoning_content" \notin DOMAIN e.result.choices[1].message
    /\ Get(e.result.choices[1], "finish_reason", "") # "length"
MalformedFailure(e) == e.returned /\ "choices" \notin DOMAIN e.result

\* C11: what the caller of generate_story gets for empty content with
\* finish_reason "length" (the token-limit failure) differs from what it gets
\* for empty content with another finish reason and from what it gets for a
\* response without choices
C11_TokenLimitDistinct ==
    \A i, j \in 1..Len(story_log) :
        (TokenLimitFailure(story_log[i])
         /\ (EmptyContentFailure(story_log[j]) \/ MalformedFailure(story_log[j])))
            => story_log[i].got # story_log[j].got

\* ---- C12 (SpecVoice)
\* C12: for every name and every outcome of the classifier call, a payload
\* that is JSON but not an object included, map_character_name_to_voice
\* returns a profile and raises no error
C12_ResolutionNeverFails ==
    \A i \in 1..Len(history) : ~history[i].raised

\* ---- C13 (SpecRL)
\* C13: every call of wait_if_needed after the first returns no earlier than
\* 60 / requests_per_minute seconds after the previous call on the limiter
\* returned
C13_MinimumSpacing == returned_at # <<>> => returned_at[1].spaced

\* ---- C20 (SpecRL)
\* C20: whenever a call of wait_if_needed has returned, request_times holds at
\* most requests_per_minute timestamps, also when the call slept because the
\* ceiling was reached
C20_WindowSizeAfterAcquire == rl_pc = "idle" => Len(request_times) <= RPM

\* ---- C14 (SpecRLFair)
\* C14: with a clock that advances during sleeps, every call of
\* wait_if_needed that is under way returns; it has no other way to end
C14_AcquireAlwaysSucceeds == (rl_pc # "idle") ~> (rl_pc = "idle")

\* a call found the ceiling reached and is asleep for more than the length of
\* the window less the age of its oldest timestamp
C14_Witness ==
    /\ rl_pc = "ceiling_sleep"
    /\ Len(request_times) >= RPM
    /\ wait_time > Buffer

\* ---- C15 (SpecOrch)
\* C15: every synthesis call of generate_audio_for_segment that succeeded is in
\* the ledger: the call counter of the synthesis model counts it, and so does
\* total_calls
C15_SynthesisAccounted ==
    /\ Len(SelectSeq(synth_log, Succeeded))
         <= Get(api_usage_stats.calls_by_model, "speech-02-hd", 0)
    /\ Len(SelectSeq(synth_log, Succeeded)) <= api_usage_stats.total_calls

\* ---- C16 (SpecOrch)
\* every counter of the ledger `new` is at least what it is in `old`
NonDecreasing(old, new) ==
    /\ new.total_calls >= old.total_calls
    /\ new.total_tokens >= old.total_tokens
    /\ new.estimated_cost >= old.estimated_cost
    /\ \A model \in DOMAIN old.calls_by_model :
         /\ model \in DOMAIN new.calls_by_model
         /\ new.calls_by_model[model] >= old.calls_by_model[model]
    /\ \A model \in DOMAIN old.tokens_by_model :
         /\ model \in DOMAIN new.tokens_by_model
         /\ new.tokens_by_model[model] >= old.tokens_by_model[model]

\* C16: over any sequence of calls on one instance, successful, throttled or
\* failed, total_calls, total_tokens, estimated_cost and the counters of each
\* model never decrease
C16_LedgerMonotonicity == [][NonDecreasing(api_usage_stats, api_usage_stats')]_vars

\* calls of both chat models were recorded, and the call that finished last
\* was throttled and then failed
C16_Witness ==
    /\ Cardinality(DOMAIN api_usage_stats.calls_by_model) = 2
    /\ api_usage_stats.total_tokens > 0
    /\ last_call.finished
    /\ last_call.service = "chat"
    /\ last_call.attempts = 2
    /\ last_call.outcome = "raised"

\* ---- C17 (SpecOrch)
\* C17: over the lifetime of a segment, repeated runs of
\* generate_full_story_audio on the same story_segments included, an
\* audio_file that has been set never changes
C17_AudioWriteOnce ==
    [][\A i \in 1..Len(story_segments) :
          story_segments[i].audio_file # <<>> =>
              story_segments'[i].audio_file = story_segments[i].audio_file]_vars

\* ---- C18 (SpecTemplate)
\* C18: for every known template and every non-empty custom name,
\* create_character_from_template returns a character whose name is the
\* custom name as given and whose voice identifier is not empty
C18_TemplateCustomName ==
    (/\ created # <<>>
     /\ template_name \in DOMAIN CHARACTER_TEMPLATES
     /\ Truthy(custom_name)) =>
        /\ created[1].kind = "return"
        /\ created[1].value.name = custom_name[1]
        /\ created[1].value.voice_id # ""

\* ---- C19 (SpecStream)
\* C19: a call of generate_full_story_audio_streaming on a parsed story opens
\* one channel, sends one synthesis frame per segment in segment order over
\* it, and closes it after the last segment
C19_StreamingMode ==
    \A k \in 1..Len(streaming_log) :
        streaming_log[k].segments > 0 =>
            /\ streaming_log[k].outcome.kind = "return"
            /\ ws_opened >= 1
            /\ ws_closed = ws_opened
            /\ Len(ws_frames) >= streaming_log[k].segments

\* ---- C21 (SpecOrch)
\* the other limiter
OtherService(service) == IF service = "chat" THEN "tts" ELSE "chat"
\* between an acquisition and its attempt the call has acquired once more
\* than it has attempted; everywhere else as often
AcquiredForAttempts ==
    /\ call.acquired = call.attempts + (IF pc \in {"post1", "post2"} THEN 1 ELSE 0)
    /\ last_call.finished => last_call.acquired = last_call.attempts
\* an attempt is sent from behind an acquisition of its own
AttemptAfterAcquire ==
    (pc' \in {"post1", "post2"} /\ pc' # pc) =>
        /\ pc = (IF pc' = "post1" THEN "acquire1" ELSE "acquire2")
        /\ limiters'[svc] # <<>>
        /\ limiters'[svc][Len(limiters'[svc])] >= now
        /\ limiters'[svc][Len(limiters'[svc])] <= now'
        /\ limiters'[OtherService(svc)] = limiters[OtherService(svc)]
\* after a throttle: the fixed sleep first, then the acquisition
SleepBeforeReacquire ==
    /\ pc = "retry_sleep" =>
          (pc' = "acquire2" /\ now' = now + retry_delay /\ limiters' = limiters)
    /\ (pc' = "acquire2" /\ pc # "acquire2") => pc = "retry_sleep"
    /\ (pc' = "retry_sleep" /\ pc # "retry_sleep") =>
          (pc = "post1" /\ call'.responses[1].kind = "throttle")
\* the limiters change in acquisitions only
NoOtherAcquisition == limiters' # limiters => pc \in {"acquire1", "acquire2"}

\* C21: after a throttle response the call sleeps retry_delay, then acquires
\* the limiter of its service again, then sends the second attempt; every
\* attempt is preceded by its own wait_if_needed on the limiter of its service
\* and never on the other, and acquisitions and attempts are equal in number
C21_RetryProtocolOrder ==
    /\ []AcquiredForAttempts
    /\ [][/\ AttemptAfterAcquire
          /\ SleepBeforeReacquire
          /\ NoOtherAcquisition]_vars

\* a synthesis call was throttled and retried: two acquisitions of the
\* synthesis limiter, a minute apart, and none of the chat limiter
C21_Witness ==
    /\ pc = "post2"
    /\ svc = "tts"
    /\ call.attempts = 1
    /\ call.acquired = 2
    /\ limiters.chat = <<>>
    /\ limiters.tts # <<>>
    /\ limiters.tts[Len(limiters.tts)] >= retry_delay

\* ---- C22 (SpecParse)
\* the text before the first colon of a line, cut at its first "(", trimmed
LabelOf(line) ==
    LET before == SubSeq(line, 1, IndexOf(line, ":") - 1)
        cut == IF IndexOf(before, "(") > 0
               THEN SubSeq(before, 1, IndexOf(before, "(") - 1)
               ELSE before
    IN  Strip(cut)
\* the segments made from lines that contain a colon, in order
Labelled == {k \in 1..Len(segments) : HasColon(lines[origin[k]])}
\* the position of segment k among them
RankOf(k) == Cardinality({j \in Labelled : j <= k})
\* the resolution made for segment k: resolutions are logged in order, and
\* those of this parse are the last ones
ResolutionOf(k) == history[Len(history) - Cardinality(Labelled) + RankOf(k)]

\* C22: for every line with a colon, the label passed to the resolver is the
\* text before the first colon cut at its first "(" and trimmed, and the text
\* of the segment is everything after the first colon, trimmed, later colons
\* included
C22_LabelAndContent ==
    ParseReturned =>
        /\ Len(history) >= Cardinality(Labelled)
        /\ \A k \in Labelled :
             /\ ResolutionOf(k).char_name = LabelOf(lines[origin[k]])
             /\ segments[k].character = ResolutionOf(k).character
             /\ segments[k].text =
                  Strip(SubSeq(lines[origin[k]], IndexOf(lines[origin[k]], ":") + 1,
                               Len(lines[origin[k]])))

\* "  Kael (angrily): Go: now! " was resolved as "Kael" and says "Go: now!"
C22_Witness ==
    /\ ParseReturned
    /\ story = Story_Stage
    /\ Len(segments) = 3
    /\ 1 \in Labelled
    /\ ResolutionOf(1).char_name = Str_Kael
    /\ segments[1].text = <<"G", "o", ":", " ", "n", "o", "w", "!">>

\* C23: a line whose label is empty, because the line begins with the colon or
\* because the label is only a parenthetical, is handed to the voice resolver
\* with the empty name like any other label; its segment carries the
\* character the resolver returned, named by the empty string, and the text
\* after the colon, and it is never the narration segment of the default
\* narrator
EmptyLabelled == {k \in Labelled : LabelOf(lines[origin[k]]) = <<>>}
C23_EmptySpeakerLabel ==
    ParseReturned =>
        /\ Len(history) >= Cardinality(Labelled)
        /\ \A k \in EmptyLabelled :
             /\ ResolutionOf(k).char_name = <<>>
             /\ ~ResolutionOf(k).raised
             /\ segments[k].character = ResolutionOf(k).character
             /\ segments[k].character.name = <<>>
             /\ segments[k].character # characters[Lower(Str_Narrator)]
             /\ segments[k] # NarrationSegment(Strip(lines[origin[k]]))
             /\ <<>> \in DOMAIN name_voice_cache
             /\ name_voice_cache[<<>>] = segments[k].character
C23_Witness ==
    /\ ParseReturned
    /\ story = Story_Aside
    /\ Len(segments) = 3
    /\ 1 \in EmptyLabelled
    /\ segments[1].character.name = <<>>
    /\ segments[1].text = <<"p", "s", "s", "t">>
    /\ segments[3].character = NarratorCharacter

\* ---- C24 (SpecClassify)
\* the base category of a classification: child for the age group child, elder
\* for the age group elder, else the gender, male standing in for a gender
\* that is neither female nor male
BaseCategory(analysis) ==
    IF analysis.age_group = "child" THEN "child"
    ELSE IF analysis.age_group = "elder" THEN "elder"
    ELSE IF analysis.gender = "female" THEN "female"
    ELSE "male"
\* C24: for every classification the voice category is villain for the
\* personalities villainous, sinister and evil, elder for the personalities
\* wise, scholarly and mentor, and otherwise the base category of gender and
\* age group: child for a child, elder for an elder, else female or male
C24_CategoryMapping ==
    classify_pc = "done" =>
        category =
            IF classified[1].personality_trait \in {"villainous", "sinister", "evil"}
            THEN "villain"
            ELSE IF classified[1].personality_trait \in {"wise", "scholarly", "mentor"}
                 THEN "elder"
                 ELSE BaseCategory(classified[1])

\* ---- C26 (SpecClassify)
HasPattern(char_name, patterns) == \E p \in patterns : Contains(Lower(char_name), p)
IsWise(analysis) == analysis.personality_trait = "wise" /\ analysis.voice_type = "wise"
Resolving == Len(history') = Len(history) + 1
\* the call that ends in this step
Ending == history'[Len(history')]
\* the index of one category, and of no other, is one higher after the step
AdvancedOnly(voice_category) ==
    voice_selection_index' =
        Put(voice_selection_index, voice_category,
            Get(voice_selection_index, voice_category, 0) + 1)
\* C25: a call of map_character_name_to_voice for a name already in the
\* voice cache returns the cached profile, sends no classification request
\* and leaves the round-robin indices, both caches, the limiters and the
\* ledger as they were; an index changes only in a call for a name that is
\* not in the voice cache, and then the index of the category of that name,
\* and no other, advances by exactly one
C25_CacheHitChangesNothing ==
    [][Resolving =>
        /\ Ending.char_name \in DOMAIN name_voice_cache =>
              /\ Ending.character = name_voice_cache[Ending.char_name]
              /\ UNCHANGED <<name_voice_cache, name_analysis_cache,
                             voice_selection_index, api_usage_stats, last_record,
                             limiters, now>>
        /\ voice_selection_index' # voice_selection_index =>
              /\ Ending.char_name \notin DOMAIN name_voice_cache
              /\ Ending.voice_category \in DOMAIN english_voices
              /\ AdvancedOnly(Ending.voice_category)
        /\ (Ending.char_name \notin DOMAIN name_voice_cache /\ ~Ending.raised) =>
              AdvancedOnly(Ending.voice_category)]_vars
\* "Vex" was resolved twice: one request was sent and the villain index
\* advanced once
C25_Witness ==
    /\ Len(history) = 2
    /\ history[1].char_name = Str_Vex
    /\ history[2].char_name = Str_Vex
    /\ history[1].fresh
    /\ ~history[2].fresh
    /\ ~history[2].raised
    /\ history[2].character = history[1].character
    /\ voice_selection_index[history[1].voice_category] = 1
    /\ api_usage_stats.total_calls = 1

\* ---- C27 (SpecParse)
\* C27: in the segment list parse_story_into_segments returns, two segments
\* whose character has the same name carry the same voice identifier, also
\* when lines labelled "Narrator:" stand beside unlabelled narration
C27_OneVoicePerSpeaker ==
    ParseReturned =>
        \A i, j \in 1..Len(segments) :
            segments[i].character.name = segments[j].character.name =>
                segments[i].character.voice_id = segments[j].character.voice_id

\* ---- C28 (SpecOrch)
\* C28: in one run of generate_full_story_audio no two segments whose
\* synthesis succeeded were given the same file name, so that the list the
\* run returns has no duplicates
C28_DistinctArtifacts ==
    returned_files # <<>> =>
        \A i, j \in 1..Len(returned_files[1]) :
            i # j => returned_files[1][i] # returned_files[1][j]

\* ---- C29 (SpecCost)
\* the sum of the costs of the entries of a cost breakdown
RECURSIVE CostSum(_, _)
CostSum(cost_breakdown, models) ==
    IF models = {} THEN 0
    ELSE LET model == CHOOSE x \in models : TRUE
         IN  cost_breakdown[model].cost + CostSum(cost_breakdown, models \ {model})
\* C29: in what get_usage_statistics returns, the costs of the models of
\* cost_breakdown sum to estimated_cost, and every model with a recorded call
\* has an entry in cost_breakdown
C29_SummaryAgreesWithLedger ==
    usage_statistics # <<>> =>
        /\ CostSum(usage_statistics[1].cost_breakdown,
                   DOMAIN usage_statistics[1].cost_breakdown)
             = usage_statistics[1].estimated_cost
        /\ DOMAIN usage_statistics[1].calls_by_model
             \subseteq DOMAIN usage_statistics[1].cost_breakdown

\* ---- C30 (SpecOrch)
\* the sum of the values of a dict of counters
RECURSIVE DictSum(_, _)
DictSum(d, keys) ==
    IF keys = {} THEN 0
    ELSE LET k == CHOOSE x \in keys : TRUE
         IN  d[k] + DictSum(d, keys \ {k})
\* the totals of the ledger are the sums of its counters by model
TotalsAreSums ==
    /\ api_usage_stats.total_calls
         = DictSum(api_usage_stats.calls_by_model, DOMAIN api_usage_stats.calls_by_model)
    /\ api_usage_stats.total_tokens
         = DictSum(api_usage_stats.tokens_by_model, DOMAIN api_usage_stats.tokens_by_model)
\* a call of make_api_call ends in this step
ChatEnds == svc = "chat" /\ pc # "idle" /\ pc' = "idle"
\* the last answer the call that ended got: one of the failures, or a parsed
\* response
LastAnswer == last_call'.responses[Len(last_call'.responses)]
\* a step that ends a call of make_api_call in failure leaves the ledger as
\* it was; one that ends it in success adds one to total_calls and to the
\* call count of its model, and to no other call count
CountsFinishedCall ==
    ChatEnds =>
        IF LastAnswer.kind \in FailureKinds
        THEN UNCHANGED api_usage_stats
        ELSE /\ api_usage_stats'.total_calls = api_usage_stats.total_calls + 1
             /\ api_usage_stats'.calls_by_model =
                  Put(api_usage_stats.calls_by_model, call.model,
                      Get(api_usage_stats.calls_by_model, call.model, 0) + 1)
\* C30: a call of make_api_call that ends in failure (transport error, HTTP
\* error that is no throttle, throttle on both attempts) leaves every counter
\* of the ledger unchanged; a call that succeeds, on the first attempt or on
\* the retry, increases total_calls and the call count of its model by
\* exactly one; no other step changes the ledger; and in every state
\* total_calls is the sum of calls_by_model and total_tokens the sum of
\* tokens_by_model
C30_LedgerCountsFinishedCalls ==
    /\ []TotalsAreSums
    /\ [][/\ CountsFinishedCall
          /\ ~ChatEnds => UNCHANGED api_usage_stats]_vars
\* three calls of make_api_call: two succeeded, and the last was throttled on
\* both attempts
C30_Witness ==
    /\ ops = 3
    /\ pc = "idle"
    /\ api_usage_stats.total_calls = 2
    /\ api_usage_stats.total_tokens > 0
    /\ last_call.service = "chat"
    /\ last_call.attempts = 2
    /\ last_call.responses[2].kind = "throttle"
====
